---- MODULE Spec2Model ----
(***************************************************************************)
(* react-rx-signals: the equality-gated multicast core.                    *)
(*                                                                         *)
(* SpecSignal models createSignal (src/src/signal.ts): a BehaviorSubject   *)
(* behind distinctUntilChanged(Object.is) and shareReplay({bufferSize: 1,  *)
(* refCount: true}).  A set call and the notification pass it starts are   *)
(* modelled frame by frame on a call stack, because subscriber callbacks   *)
(* run inside the pass and may call set or unsubscribe themselves.         *)
(*                                                                         *)
(* SpecStore models createStore (src/src/store.ts): the merging setter,    *)
(* the whole-store stream and the per-key selectors.                       *)
(*                                                                         *)
(* SpecComputed models createComputed (src/src/signal.ts): the cache key,  *)
(* the bounded cache of derived streams and the derived pipeline           *)
(* map -> distinctUntilChanged(Object.is) -> shareReplay(refCount).        *)
(*                                                                         *)
(* SpecBridge models useSignal (src/src/useSignal.ts and the revision with *)
(* a continuation condition in src/unnamed/part_008): the subscribe and    *)
(* getSnapshot pair handed to useSyncExternalStore, over a source that may *)
(* not have emitted yet and may fail.                                      *)
(*                                                                         *)
(* SpecDebounce models useDebouncedSignalEffect (src/unnamed/part_006)     *)
(* with a clock for its timer.                                             *)
(*                                                                         *)
(* SpecIdentity and SpecShallow model Object.is and shallowEqual over      *)
(* JavaScript values with NaN, both zeros and object references.           *)
(*                                                                         *)
(* SpecNested models a store whose fields hold records, with a subscriber  *)
(* of one field's selector.  SpecEffect models useSignalEffect             *)
(* (src/src/useSignalEffect.ts) and the cleanups its effect returns.       *)
(* SpecLifecycle models useSignalLifecycle over a store selector,          *)
(* SpecUseStore models useStore (src/src/useStore.ts) with any initial     *)
(* value, and SpecMemo models the memo wrappers of                         *)
(* src/src/useSignalLifecycle.ts and the cache they share.                 *)
(***************************************************************************)
EXTENDS Integers, Sequences, FiniteSets, TLC

\* ------------------------------------------------------------------------
\* Bounds
\* ------------------------------------------------------------------------
MaxVal == 1      \* signal values are 0..MaxVal and null
MaxSubs == 2     \* subscriptions ever created on the signal
MaxSets == 2     \* set calls in one behaviour (top-level and nested)
MaxDepth == 2    \* set calls that may be active at once (outer + nested)
MaxStVal == 1    \* store fields hold 0..MaxStVal
MaxStSubs == 1   \* subscriptions ever created on the store's streams
MaxStSets == 2   \* set calls on the store in one behaviour
MaxOps == 5      \* calls on derived streams and their sources in one behaviour
CacheBound == 2  \* FastComputedCache.maxSize (100 in the code), scaled down
MaxBVal == 4     \* the bridged source and `initial` take values 0..MaxBVal
MaxDVal == 2     \* the debounced source takes values 0..MaxDVal
MaxTime == 5     \* the clock of the debounce timer runs 0..MaxTime
Delay == 2       \* the delay argument of useDebouncedSignalEffect
MaxMag == 2      \* numbers compared are NaN and -MaxMag..MaxMag with both zeros
MaxRefs == 2     \* object references compared
MaxNRefs == 7    \* objects created for the store of records
MaxEVal == 1     \* the effect hook's signals take values 0..MaxEVal
MaxRuns == 4     \* runs of the effect in one behaviour
MaxLVal == 2     \* the fields of the store the lifecycle hook watches hold
                 \* 0..MaxLVal
MaxComps == 3    \* components handed to the memo wrappers

\* ------------------------------------------------------------------------
\* Values and setter arguments
\* ------------------------------------------------------------------------
Null == 0 - 1                 \* the JavaScript null / undefined
None == 0 - 2                 \* "no value" marker of the model
Values == (0..MaxVal) \cup {Null}
Subs == 1..MaxSubs

FnInc == 0                    \* updater (prev) => (prev + 1) % (MaxVal + 1)
FnBoom == 1                   \* updater that throws
Args == [kind : {"lit"}, x : Values] \cup [kind : {"fn"}, x : {FnInc, FnBoom}]
NoArg == [kind |-> "none", x |-> None]

VARIABLES
  sigValue,    \* BehaviorSubject._value
  connected,   \* shareReplay holds a connection to the subject
  ducPrev,     \* previousKey of distinctUntilChanged on that connection
  buffer,      \* the ReplaySubject(1) buffer of shareReplay
  observers,   \* the ReplaySubject's observers, in registration order
  subState,    \* per subscription: "new", "open" or "closed"
  last,        \* per subscription: the value of its latest invocation
  stack,       \* active frames: set calls, subscribe calls, callbacks
  done,        \* the frame of the set call that returned most recently
  setsLeft,    \* set calls still allowed in this behaviour
  reported,    \* errors handed to the asynchronous unhandled-error hook
  lateCall,    \* a callback ran for a subscription already unsubscribed
  reentered    \* a nested set changed the value since the last outer one

sigVars == <<sigValue, connected, ducPrev, buffer, observers, subState, last,
             stack, done, setsLeft, reported, lateCall, reentered>>

VARIABLES
  stState,     \* the store's BehaviorSubject._value: [ref, rec]
  whConn,      \* the whole-store stream is connected to the subject
  whPrev,      \* previousKey of its distinctUntilChanged(shallowEqual)
  whBuf,       \* its shareReplay buffer
  selCache,    \* selectorCache of the subject: key -> selector id, 0 if none
  selConn,     \* per key: the selector is connected to the subject
  selPrev,     \* per key: previousKey of its distinctUntilChanged(Object.is)
  selBuf,      \* per key: its shareReplay buffer
  stSub,       \* per subscription: state and target ("*" or a key)
  stDone,      \* what the most recent set call did
  stSetsLeft   \* set calls still allowed in this behaviour

stVars == <<stState, whConn, whPrev, whBuf, selCache, selConn, selPrev,
            selBuf, stSub, stDone, stSetsLeft>>

VARIABLES
  srcVal,            \* per source signal: its current value
  srcObs,            \* per source: observers of its stream, in order;
                     \* x > 0 is derived stream x, -c is consumer c
  streams,           \* derived streams ever created, in creation order
  direct,            \* per consumer of a source itself: state, source, value
  cache,             \* globalComputedCache, in Map insertion order
  recency,           \* cached keys, least recently accessed first
  fnId,              \* computeFunctionIds: projection -> id, 0 if none
  computeIdCounter,  \* computeIdCounter
  lastRet,           \* per (source, projection): stream returned last, or 0
  cDone,             \* what the most recent call did
  opsLeft            \* calls still allowed in this behaviour

cmpVars == <<srcVal, srcObs, streams, direct, cache, recency, fnId,
             computeIdCounter, lastRet, cDone, opsLeft>>

VARIABLES
  bSrc,        \* the bridged source's current value, None before the
               \* first one
  bCur,        \* currentValueRef.current, what getSnapshot returns
  bInit,       \* initialRef.current
  bOpt,        \* options.condition of the latest render: 0 is none,
               \* k > 0 is (value) => value < k
  bSub,        \* the subscription made by subscribe: "none", "open",
               \* "done" (completed or failed), "closed" (unsubscribed)
  bSubOpt,     \* the condition captured by that subscribe function
  bPrev,       \* previousKey of the subscription's distinctUntilChanged
  bAnn,        \* the snapshot at the latest onStoreChange call, None if none
  bOrig,       \* the initial argument of the first render
  bSeed,       \* a seeding read is still subscribed to the source
  bErr,        \* the source has failed
  bLatched,    \* a condition has returned false for a value
  bStep,       \* the latest call: "init", "render", "sub", "unsub", "set",
               \* "error"
  bTold        \* the latest call called onStoreChange

brVars == <<bSrc, bCur, bInit, bOpt, bSub, bSubOpt, bPrev, bAnn, bOrig,
            bSeed, bErr, bLatched, bStep, bTold>>

VARIABLES
  dSrc,         \* the debounced source's current value
  dSub,         \* the hook's subscription is open
  lastValueRef, \* lastValueRef.current
  timeoutRef,   \* the pending timer: its value and the time it is due
  cleanupRef,   \* cleanupRef.current holds a cleanup function
  now,          \* the clock
  ranCount,     \* calls of the effect so far
  ranVal,       \* the argument of the latest call of the effect
  lastAt,       \* the time debouncedHandler was last called
  dFresh        \* debouncedHandler was called and the effect has not run
                \* since

dbVars == <<dSrc, dSub, lastValueRef, timeoutRef, cleanupRef, now, ranCount,
            ranVal, lastAt, dFresh>>

VARIABLES
  jsCur,        \* the value of a signal over JavaScript values
  jsPrev,       \* its value before the latest set
  jsArg,        \* the argument of the latest set
  jsNotified,   \* the latest set handed its argument to the subscribers
  jsStep        \* "init", then "set"

jsVars == <<jsCur, jsPrev, jsArg, jsNotified, jsStep>>

VARIABLES
  shA, shB,     \* the arguments of the latest shallowEqual call
  shIndex,      \* what shallowEqual of index.ts returned
  shStore,      \* what shallowEqual of store.ts returned
  shUse,        \* what shallowEqual of useStore.ts returned
  shStep        \* "init", then "compare"

shVars == <<shA, shB, shIndex, shStore, shUse, shStep>>

VARIABLES
  nState,       \* the store's state: a record of records
  nSelPrev,     \* previousKey of the selector's distinctUntilChanged
  nConn,        \* select("k") has its subscriber
  nNotified,    \* the latest call handed a value to the subscriber
  nOld,         \* the record under "k" before the latest call
  nFresh,       \* the next unused object reference
  nStep         \* "init", "set", "sub", "unsub"

nVars == <<nState, nSelPrev, nConn, nNotified, nOld, nFresh, nStep>>

VARIABLES
  eSrcVal,      \* the value of each signal
  eSource,      \* the signal the effect hook is subscribed to, 0 if none
  eMounted,     \* "no", "yes", "gone"
  eCleanupRef,  \* cleanupRef.current: the run whose cleanup it holds, 0 if
                \* none
  eRuns,        \* runs of the effect so far
  eCalls,       \* for each run, the calls of the cleanup it returned
  eReplaced,    \* source$ was replaced while the hook was mounted
  eStep         \* "init", "mount", "set", "replace", "unmount"

eVars == <<eSrcVal, eSource, eMounted, eCleanupRef, eRuns, eCalls,
           eReplaced, eStep>>

VARIABLES
  lState,       \* the store's record: fields name and age
  lSub,         \* the lifecycle hook's subscription: "none", "open",
                \* "closed"
  lDucPrev,     \* the last value the selector's distinctUntilChanged let
                \* through, Null while the selector has no subscriber
  prevRef,      \* prevRef.current, Null for undefined
  lCalls,       \* the calls of the callback made by the last step, in
                \* order, each <<prev, current>>
  lOld,         \* the value of the watched field before the last step
  lStep         \* "init", "mount", "set", "rerun", "unmount"

lVars == <<lState, lSub, lDucPrev, prevRef, lCalls, lOld, lStep>>

VARIABLES
  uSrc,         \* the record the source store holds
  uInit,        \* the initial value given to useStore
  uCur,         \* currentValueRef.current
  uSub,         \* the subscription made by subscribe: "none", "open",
                \* "closed"
  uTold,        \* onStoreChange was called during the last step
  uThrew,       \* a next handler threw during the last step
  uStep         \* "init", "render", "sub", "set", "unsub"

uVars == <<uSrc, uInit, uCur, uSub, uTold, uThrew, uStep>>

VARIABLES
  componentMemoCache,  \* componentMemoCache: for each component the
                       \* comparison of the memoized component it holds,
                       \* "" if none
  mLast                \* the last wrapper call: wrapper, component, the
                       \* comparison of the component it returned, and
                       \* whether that one came from the cache

mVars == <<componentMemoCache, mLast>>

vars == <<sigVars, stVars, cmpVars, brVars, dbVars, jsVars,
          shVars, nVars, eVars, lVars, uVars, mVars>>
nonSigVars == <<stVars, cmpVars, brVars, dbVars, jsVars, shVars,
                nVars, eVars, lVars, uVars, mVars>>
nonStVars == <<sigVars, cmpVars, brVars, dbVars, jsVars, shVars,
               nVars, eVars, lVars, uVars, mVars>>
nonCmpVars == <<sigVars, stVars, brVars, dbVars, jsVars, shVars,
                nVars, eVars, lVars, uVars, mVars>>
nonBrVars == <<sigVars, stVars, cmpVars, dbVars, jsVars, shVars,
               nVars, eVars, lVars, uVars, mVars>>
nonDbVars == <<sigVars, stVars, cmpVars, brVars, jsVars, shVars,
               nVars, eVars, lVars, uVars, mVars>>
nonJsVars == <<sigVars, stVars, cmpVars, brVars, dbVars, shVars,
               nVars, eVars, lVars, uVars, mVars>>
nonShVars == <<sigVars, stVars, cmpVars, brVars, dbVars, jsVars,
               nVars, eVars, lVars, uVars, mVars>>
nonNVars == <<sigVars, stVars, cmpVars, brVars, dbVars, jsVars,
              shVars, eVars, lVars, uVars, mVars>>
nonEVars == <<sigVars, stVars, cmpVars, brVars, dbVars, jsVars,
              shVars, nVars, lVars, uVars, mVars>>
nonLVars == <<sigVars, stVars, cmpVars, brVars, dbVars, jsVars,
              shVars, nVars, eVars, uVars, mVars>>
nonUVars == <<sigVars, stVars, cmpVars, brVars, dbVars, jsVars,
              shVars, nVars, eVars, lVars, mVars>>
nonMVars == <<sigVars, stVars, cmpVars, brVars, dbVars, jsVars,
              shVars, nVars, eVars, lVars, uVars>>

\* ------------------------------------------------------------------------
\* Helpers
\* ------------------------------------------------------------------------
Range(s) == {s[i] : i \in 1..Len(s)}

IsIncreasing(s) == \A i, j \in 1..Len(s) : i < j => s[i] < s[j]

RECURSIVE Without(_, _)
Without(s, x) ==
  IF s = <<>> THEN <<>>
  ELSE IF Head(s) = x THEN Without(Tail(s), x)
       ELSE <<Head(s)>> \o Without(Tail(s), x)

Min2(a, b) == IF a < b THEN a ELSE b

\* Object.is on the values of this model (numbers other than NaN and the
\* zeros, and null)
ObjectIsNonZero(a, b) == a = b /\ a # 0
ObjectIs(a, b) == a = b

\* the user's updater functions
ApplyFn(f, prev) ==
  IF prev = Null THEN 1 ELSE (prev + 1) % (MaxVal + 1)

\* setter, lines 51-86: the candidate value, or ok = FALSE when the setter
\* returns early.  Reading .call of null throws (line 56, caught at 75);
\* a function has a truthy .call and is applied (line 59), a throwing one
\* is caught at line 60.
CandidateBoomStored(arg, current) ==
  IF arg.kind = "lit"
    THEN IF arg.x = Null
           THEN [ok |-> FALSE, val |-> current]
           ELSE [ok |-> TRUE, val |-> arg.x]
    ELSE IF arg.x = FnBoom
           THEN [ok |-> TRUE, val |-> Null]
           ELSE [ok |-> TRUE, val |-> ApplyFn(arg.x, current)]
Candidate(arg, current) ==
  IF arg.kind = "lit"
    THEN IF arg.x = Null
           THEN [ok |-> FALSE, val |-> current]
           ELSE [ok |-> TRUE, val |-> arg.x]
    ELSE IF arg.x = FnBoom
           THEN [ok |-> FALSE, val |-> current]
           ELSE [ok |-> TRUE, val |-> ApplyFn(arg.x, current)]


\* ------------------------------------------------------------------------
\* Frames of the call stack
\* ------------------------------------------------------------------------
\* kind "set": a set call (lines 49-121) and the pass it started;
\* kind "sub": a subscribe call delivering the replayed value;
\* kind "cb":  a subscriber callback that is running.
Frame(kind, arg, cur, v, changed, snap, pre, sub, inCb, repeat) ==
  [kind |-> kind, arg |-> arg, cur |-> cur, v |-> v, changed |-> changed,
   snap |-> snap, i |-> 1, pre |-> pre, inv |-> <<>>,
   cnt |-> [s \in Subs |-> 0], nested |-> FALSE, threw |-> FALSE,
   repeat |-> repeat, sub |-> sub, ops |-> 0,
   inCb |-> inCb, ret |-> None]

NoDone == Frame("none", NoArg, None, None, FALSE, <<>>, {}, 0, FALSE, FALSE)

Top == stack[Len(stack)]

SetDepth == Cardinality({j \in 1..Len(stack) : stack[j].kind = "set"})

OpenSubs == {s \in Subs : subState[s] = "open"}

\* Subject.next iterates a copy of the observer list taken when the pass
\* starts (currentObservers), lines 93 and 130
PassSnapshotReversed(obs) == [j \in 1..Len(obs) |-> obs[Len(obs) + 1 - j]]
PassSnapshotLocked(obs) == IF stack = <<>> THEN obs ELSE <<>>
PassSnapshot(obs) == obs

\* the list a running pass walks: its own snapshot, not the live list
PassListLive(f) == observers
PassList(f) == f.snap

\* Subscriber.next ignores a subscriber that has been unsubscribed
IsStoppedNever(s) == FALSE
IsStopped(s) == subState[s] = "closed"

\* a callback that throws is caught per subscriber by the consumer
\* observer; the pass goes on with the next observer
AfterThrowAbort(f) == Len(f.snap) + 1
AfterThrow(f) == f.i + 1

\* shareReplay's ReplaySubject (bufferSize 1, line 11) records a value
\* that passed distinctUntilChanged before it notifies anyone
BufferAfterNextStale(passes, v, buf) == buf
BufferAfterNext(passes, v, buf) == IF passes THEN <<v>> ELSE buf

\* ------------------------------------------------------------------------
\* createSignal: set
\* ------------------------------------------------------------------------
\* The setter up to the start of the notification pass: candidate value,
\* Object.is gate (line 89), BehaviorSubject.next (line 93), then the
\* distinctUntilChanged gate and the ReplaySubject buffer of the pipeline
\* (lines 126-131).  The frame pushed holds the observers to notify.
BeginSet(arg) ==
  LET current == sigValue
      c == Candidate(arg, current)
      emits == c.ok /\ ~ObjectIs(current, c.val)
      passes == emits /\ connected /\ ~ObjectIs(ducPrev, c.val)
      rep == /\ stack = <<>>
             /\ done.kind = "set"
             /\ arg.kind = "lit"
             /\ done.arg = arg
             /\ ~done.nested
      f == Frame("set", arg, current, c.val, emits,
                 IF passes THEN PassSnapshot(observers) ELSE <<>>,
                 OpenSubs, 0, stack # <<>>, rep)
      marked == [j \in 1..Len(stack) |->
                   IF stack[j].kind = "set" /\ emits
                     THEN [stack[j] EXCEPT !.nested = TRUE]
                     ELSE IF stack[j].kind = "cb" /\ j = Len(stack)
                            THEN [stack[j] EXCEPT !.ops = 1]
                            ELSE stack[j]]
  IN /\ setsLeft > 0
     /\ setsLeft' = setsLeft - 1
     /\ sigValue' = IF emits THEN c.val ELSE sigValue
     /\ ducPrev' = IF passes THEN c.val ELSE ducPrev
     /\ buffer' = BufferAfterNext(passes, c.val, buffer)
     /\ stack' = Append(marked, f)
     /\ reentered' = IF stack = <<>>
                       THEN (IF emits THEN FALSE ELSE reentered)
                       ELSE (reentered \/ emits)
     /\ UNCHANGED <<connected, observers, subState, last, done, reported,
                    lateCall>>

\* set called by the application, outside any callback
SetTop(arg) ==
  /\ stack = <<>>
  /\ BeginSet(arg)
  /\ UNCHANGED nonSigVars

\* set called from inside a subscriber callback (re-entrant set)
CbSet(arg) ==
  /\ stack # <<>>
  /\ Top.kind = "cb"
  /\ Top.ops = 0
  /\ SetDepth < MaxDepth
  /\ BeginSet(arg)
  /\ UNCHANGED nonSigVars

\* ------------------------------------------------------------------------
\* The notification pass
\* ------------------------------------------------------------------------
\* one iteration of the loop over the pass's observers: a stopped
\* subscriber is skipped, any other has its callback invoked
Deliver ==
  /\ stack # <<>>
  /\ Top.kind \in {"set", "sub"}
  /\ Top.i <= Len(PassList(Top))
  /\ LET n == Len(stack)
         f == Top
         s == PassList(f)[f.i]
         counted == [j \in 1..n |->
                       LET g == IF j = n
                                  THEN [stack[j] EXCEPT !.inv = Append(@, s)]
                                  ELSE stack[j]
                       IN IF g.kind = "set" /\ g.changed /\ g.v = f.v
                            THEN [g EXCEPT !.cnt[s] = Min2(@ + 1, 2)]
                            ELSE g]
     IN IF IsStopped(s)
          THEN /\ stack' = [stack EXCEPT ![n].i = @ + 1]
               /\ UNCHANGED <<last, lateCall>>
          ELSE /\ last' = [last EXCEPT ![s] = f.v]
               /\ lateCall' = (lateCall \/ subState[s] = "closed")
               /\ stack' = Append(counted,
                                  Frame("cb", NoArg, None, f.v, FALSE, <<>>,
                                        {}, s, TRUE, FALSE))
  /\ UNCHANGED <<sigValue, connected, ducPrev, buffer, observers, subState,
                 done, setsLeft, reported, reentered>>
  /\ UNCHANGED nonSigVars

\* the callback returns normally
CbReturn ==
  /\ stack # <<>>
  /\ Top.kind = "cb"
  /\ LET n == Len(stack)
     IN stack' = [SubSeq(stack, 1, n - 1) EXCEPT ![n - 1].i = @ + 1]
  /\ UNCHANGED <<sigValue, connected, ducPrev, buffer, observers, subState,
                 last, done, setsLeft, reported, lateCall, reentered>>
  /\ UNCHANGED nonSigVars

\* the callback throws: the error goes to the asynchronous unhandled-error
\* hook, not to the caller of next
CbThrow ==
  /\ stack # <<>>
  /\ Top.kind = "cb"
  /\ LET n == Len(stack)
         parent == stack[n - 1]
     IN stack' = [SubSeq(stack, 1, n - 1) EXCEPT
                    ![n - 1].i = AfterThrow(parent),
                    ![n - 1].threw = TRUE]
  /\ reported' = TRUE
  /\ UNCHANGED <<sigValue, connected, ducPrev, buffer, observers, subState,
                 last, done, setsLeft, lateCall, reentered>>
  /\ UNCHANGED nonSigVars

\* the pass is over: the set (or subscribe) call returns
PassReturn ==
  /\ stack # <<>>
  /\ Top.kind \in {"set", "sub"}
  /\ Top.i > Len(PassList(Top))
  /\ stack' = SubSeq(stack, 1, Len(stack) - 1)
  /\ done' = IF Top.kind = "set" THEN [Top EXCEPT !.ret = sigValue] ELSE done
  /\ UNCHANGED <<sigValue, connected, ducPrev, buffer, observers, subState,
                 last, setsLeft, reported, lateCall, reentered>>
  /\ UNCHANGED nonSigVars

\* ------------------------------------------------------------------------
\* subscribe / unsubscribe on the signal's observable
\* ------------------------------------------------------------------------
\* Subscription.unsubscribe: removes the subscriber; with refCount: true
\* (line 11) the last one leaving resets shareReplay: the connection to
\* the subject is dropped together with the buffer
DoUnsub(t) ==
  IF subState[t] = "open"
    THEN LET rest == Without(observers, t)
         IN /\ subState' = [subState EXCEPT ![t] = "closed"]
            /\ observers' = rest
            /\ connected' = (rest # <<>>)
            /\ buffer' = IF rest = <<>> THEN <<>> ELSE buffer
            /\ ducPrev' = IF rest = <<>> THEN None ELSE ducPrev
    ELSE UNCHANGED <<subState, observers, connected, buffer, ducPrev>>

Unsubscribe(t) ==
  /\ stack = <<>>
  /\ subState[t] # "new"
  /\ DoUnsub(t)
  /\ UNCHANGED <<sigValue, last, stack, done, setsLeft, reported, lateCall,
                 reentered>>
  /\ UNCHANGED nonSigVars

\* unsubscribe called from inside a callback, of itself or of another
CbUnsub(t) ==
  /\ stack # <<>>
  /\ Top.kind = "cb"
  /\ Top.ops = 0
  /\ subState[t] = "open"
  /\ DoUnsub(t)
  /\ stack' = [stack EXCEPT ![Len(stack)].ops = 1]
  /\ UNCHANGED <<sigValue, last, done, setsLeft, reported, lateCall,
                 reentered>>
  /\ UNCHANGED nonSigVars

\* observable.subscribe(callback): the subscriber joins the ReplaySubject
\* and receives the buffered value; the first subscriber makes shareReplay
\* connect, and the BehaviorSubject emits its current value at once
Subscribe ==
  /\ stack = <<>>
  /\ \E s \in Subs :
       /\ subState[s] = "new"
       /\ \A r \in Subs : r < s => subState[r] # "new"
       /\ subState' = [subState EXCEPT ![s] = "open"]
       /\ observers' = Append(observers, s)
       /\ connected' = TRUE
       /\ ducPrev' = IF connected THEN ducPrev ELSE sigValue
       /\ buffer' = IF connected THEN buffer ELSE <<sigValue>>
       /\ stack' = <<Frame("sub", NoArg, sigValue, buffer'[1], FALSE, <<s>>,
                           {}, s, FALSE, FALSE)>>
  /\ UNCHANGED <<sigValue, last, done, setsLeft, reported, lateCall,
                 reentered>>
  /\ UNCHANGED nonSigVars

\* ------------------------------------------------------------------------
\* createStore (src/src/store.ts)
\* ------------------------------------------------------------------------
Keys == {"a", "b"}
StVals == 0..MaxStVal
StSubs == 1..MaxStSubs
Undef == Null                 \* reading a key the record does not have

\* records are functions from their own keys; a state object is a record
\* together with its reference
Partials == UNION {[D -> StVals] : D \in SUBSET Keys}
EmptyRec == [k \in {} |-> 0]
Obj(ref, rec) == [ref |-> ref, rec |-> rec]
NoObj == Obj(0 - 1, EmptyRec)

Updaters == {"same", "copy", "onlyA"}
StArgs == [kind : {"part"}, p : Partials, f : {""}]
            \cup [kind : {"fn"}, p : {EmptyRec}, f : Updaters]
NoStArg == [kind |-> "none", p |-> EmptyRec, f |-> ""]

Get(rec, k) == IF k \in DOMAIN rec THEN rec[k] ELSE Undef

\* shallowEqual, lines 19-38
ShallowEqualRefOnly(a, b) == a.ref = b.ref
ShallowEqual(a, b) ==
  \/ a.ref = b.ref
  \/ /\ Cardinality(DOMAIN a.rec) = Cardinality(DOMAIN b.rec)
     /\ \A k \in DOMAIN a.rec :
          k \in DOMAIN b.rec /\ ObjectIs(a.rec[k], b.rec[k])

\* { ...prev, ...update }, line 50
MergeReplace(prev, upd) == upd
Merge(prev, upd) ==
  [k \in DOMAIN prev \cup DOMAIN upd |->
     IF k \in DOMAIN upd THEN upd[k] ELSE prev[k]]

\* fastMerge of the later revision: copy prev, then assign the update's
\* keys one by one
RECURSIVE AssignAll(_, _, _)
AssignAll(result, upd, keys) ==
  IF keys = {} THEN result
  ELSE LET k == CHOOSE x \in keys : TRUE
           assigned == [j \in DOMAIN result \cup {k} |->
                          IF j = k THEN upd[k] ELSE result[j]]
       IN AssignAll(assigned, upd, keys \ {k})

FastMerge(prev, upd) == AssignAll(prev, upd, DOMAIN upd)

\* the user's updater functions: (prev) => prev, (prev) => ({ ...prev }),
\* (prev) => ({ a: prev.a })
ApplyUpdater(f, prev, fresh) ==
  IF f = "same" THEN prev
  ELSE IF f = "copy" THEN Obj(fresh, prev.rec)
  ELSE Obj(fresh, [k \in {"a"} |-> Get(prev.rec, "a")])

\* map((state) => state[key]), line 69
Project(obj, k) == Get(obj.rec, k)

\* distinctUntilChanged(Object.is) of a selector, line 70
SelChangedAlways(prev, val) == TRUE
SelChangedShallow(prev, val) == ~ShallowEqual(prev, val)
SelChanged(prev, val) == ~ObjectIs(prev, val)

StOpen(t) == {s \in StSubs : stSub[s].st = "open" /\ stSub[s].tgt = t}
StOpenAll == {s \in StSubs : stSub[s].st = "open"}

\* set, lines 47-56, with the synchronous delivery through the
\* whole-store stream (lines 80-83) and the selectors (lines 68-72)
StoreSet(arg) ==
  LET prev == stState
      fresh == prev.ref + 1
      cand == IF arg.kind = "fn"
                THEN ApplyUpdater(arg.f, prev, fresh)
                ELSE Obj(fresh, Merge(prev.rec, arg.p))
      gated == ShallowEqual(prev, cand)
      whEmit == ~gated /\ whConn /\ ~ShallowEqual(whPrev, cand)
      selEmit == [k \in Keys |->
                    ~gated /\ selConn[k] /\ SelChanged(selPrev[k], Project(cand, k))]
      hit(s) == /\ stSub[s].st = "open"
                /\ IF stSub[s].tgt = "*" THEN whEmit ELSE selEmit[stSub[s].tgt]
      rep == /\ stDone.kind = "set"
             /\ arg.kind = "part"
             /\ stDone.arg = arg
  IN /\ stSetsLeft > 0
     /\ stSetsLeft' = stSetsLeft - 1
     /\ stState' = IF gated THEN prev ELSE cand
     /\ whPrev' = IF whEmit THEN cand ELSE whPrev
     /\ whBuf' = IF whEmit THEN <<cand>> ELSE whBuf
     /\ selPrev' = [k \in Keys |-> IF selEmit[k] THEN Project(cand, k) ELSE selPrev[k]]
     /\ selBuf' = [k \in Keys |-> IF selEmit[k] THEN <<Project(cand, k)>> ELSE selBuf[k]]
     /\ stDone' = [kind |-> "set", arg |-> arg, prev |-> prev, cand |-> cand,
                   post |-> stState', open |-> StOpenAll,
                   delta |-> [s \in StSubs |-> IF hit(s) THEN 1 ELSE 0],
                   repeat |-> rep,
                   pdelta |-> stDone.delta]
     /\ UNCHANGED <<whConn, selCache, selConn, stSub>>
     /\ UNCHANGED nonStVars

\* select(key), lines 59-77: the selector cached for the key, created on
\* the first request.  Selectors are numbered in order of creation.
SelectorForUncached(k) == selCache[k] + 1
SelectorFor(k) ==
  IF selCache[k] # 0 THEN selCache[k]
  ELSE Cardinality({j \in Keys : selCache[j] # 0}) + 1

\* select(key) whose result is not subscribed to; a repeated request finds
\* the cached selector and changes nothing
StSelect(k) ==
  /\ selCache' = [selCache EXCEPT ![k] = SelectorFor(k)]
  /\ UNCHANGED <<stState, whConn, whPrev, whBuf, selConn, selPrev, selBuf,
                 stSub, stDone, stSetsLeft>>
  /\ UNCHANGED nonStVars

\* store$.subscribe(callback): joins the whole-store stream and receives
\* the buffered state; the first subscriber connects the stream
StSubscribeAll ==
  /\ \E s \in StSubs :
       /\ stSub[s].st = "new"
       /\ \A r \in StSubs : r < s => stSub[r].st # "new"
       /\ stSub' = [stSub EXCEPT ![s] = [st |-> "open", tgt |-> "*"]]
       /\ whConn' = TRUE
       /\ whPrev' = IF whConn THEN whPrev ELSE stState
       /\ whBuf' = IF whConn THEN whBuf ELSE <<stState>>
  /\ UNCHANGED <<stState, selCache, selConn, selPrev, selBuf, stDone,
                 stSetsLeft>>
  /\ UNCHANGED nonStVars

\* select(key).subscribe(callback)
StSubscribeKey(k) ==
  /\ \E s \in StSubs :
       /\ stSub[s].st = "new"
       /\ \A r \in StSubs : r < s => stSub[r].st # "new"
       /\ stSub' = [stSub EXCEPT ![s] = [st |-> "open", tgt |-> k]]
       /\ selCache' = [selCache EXCEPT ![k] = SelectorFor(k)]
       /\ selConn' = [selConn EXCEPT ![k] = TRUE]
       /\ selPrev' = IF selConn[k] THEN selPrev
                     ELSE [selPrev EXCEPT ![k] = Project(stState, k)]
       /\ selBuf' = IF selConn[k] THEN selBuf
                    ELSE [selBuf EXCEPT ![k] = <<Project(stState, k)>>]
  /\ UNCHANGED <<stState, whConn, whPrev, whBuf, stDone, stSetsLeft>>
  /\ UNCHANGED nonStVars

\* unsubscribe: with refCount: true the last subscriber leaving a stream
\* disconnects it from the subject and drops its buffer
StUnsubscribe(s) ==
  /\ stSub[s].st = "open"
  /\ LET t == stSub[s].tgt
         lastOne == StOpen(t) = {s}
     IN /\ stSub' = [stSub EXCEPT ![s].st = "closed"]
        /\ IF t = "*"
             THEN /\ whConn' = ~lastOne
                  /\ whPrev' = IF lastOne THEN NoObj ELSE whPrev
                  /\ whBuf' = IF lastOne THEN <<>> ELSE whBuf
                  /\ UNCHANGED <<selConn, selPrev, selBuf>>
             ELSE /\ selConn' = [selConn EXCEPT ![t] = ~lastOne]
                  /\ selPrev' = IF lastOne THEN [selPrev EXCEPT ![t] = None]
                                ELSE selPrev
                  /\ selBuf' = IF lastOne THEN [selBuf EXCEPT ![t] = <<>>]
                               ELSE selBuf
                  /\ UNCHANGED <<whConn, whPrev, whBuf>>
  /\ UNCHANGED <<stState, selCache, stDone, stSetsLeft>>
  /\ UNCHANGED nonStVars

\* ------------------------------------------------------------------------
\* Derived streams: createComputed, src/src/signal.ts lines 192-386
\* ------------------------------------------------------------------------
Srcs == {1, 2}                \* two source signals
SrcVals == {0, 1, 2}
Fns == 1..(CacheBound + 1)    \* one projection more than the cache holds
Cons == 1..MaxOps
Requests == Srcs \X Fns
Threw == 0 - 3                \* outcome of a projection that throws
NoKey == <<>>

\* the compute arguments: function 1 is the parity test of the test suite,
\* function 2 throws on the value 2, every other one returns its argument
Proj(f, v) ==
  IF f = 1 THEN v % 2
  ELSE IF f = 2 /\ v = 2 THEN Threw
  ELSE v

\* lines 274-276: __signalId__ is assigned nowhere in the repository, so
\* the source id is source$.toString(), the text "[object Object]" for
\* every observable (written 0 here)
SourceId(src) == 0

\* line 277: `${sourceId}:${computeId}`
CacheKeyFallback(src, cid) == <<opsLeft, cid>>
CacheKey(src, cid) == <<SourceId(src), cid>>

\* getComputeId, lines 238-245
GetComputeId(f) == IF fnId[f] # 0 THEN fnId[f] ELSE computeIdCounter + 1

CacheIndex(c, key) ==
  IF \E i \in 1..Len(c) : c[i].key = key
    THEN CHOOSE i \in 1..Len(c) : c[i].key = key
    ELSE 0

RemoveAt(c, i) ==
  [j \in 1..(Len(c) - 1) |-> IF j < i THEN c[j] ELSE c[j + 1]]

\* FastComputedCache.get, lines 196-206: a hit moves the entry to the end
CacheGetNoTouch(c, key) ==
  LET i == CacheIndex(c, key)
  IN [x |-> IF i = 0 THEN 0 ELSE c[i].x, cache |-> c]
CacheGet(c, key) ==
  LET i == CacheIndex(c, key)
  IN IF i = 0 THEN [x |-> 0, cache |-> c]
     ELSE [x |-> c[i].x, cache |-> Append(RemoveAt(c, i), c[i])]

\* FastComputedCache.set, lines 208-218: a full cache drops its first key
CacheSet(c, key, x) ==
  LET c1 == IF Len(c) >= CacheBound /\ c # <<>> THEN Tail(c) ELSE c
      i == CacheIndex(c1, key)
  IN IF i = 0 THEN Append(c1, [key |-> key, x |-> x])
     ELSE [c1 EXCEPT ![i].x = x]

CacheKeys(c) == {c[i].key : i \in 1..Len(c)}
CachedStreams == {cache[i].x : i \in 1..Len(cache)}

\* the order of last access kept beside the cache: key moves to the end
Touch(r, key) == Append(SelectSeq(r, LAMBDA k : k # key), key)

NoStream == [src |-> 0, fn |-> 0, n |-> 0, conn |-> FALSE, prev |-> None,
             buf |-> None]
NoDirect == [st |-> "new", src |-> 0, last |-> None]
NoCDone == [kind |-> "none", src |-> 0, fn |-> 0, v |-> None, ret |-> 0,
            evKey |-> NoKey, lruKey |-> NoKey, prevVal |-> None,
            notified |-> {}, errd |-> {}, evald |-> {}]

\* createComputed(source$, compute), lines 255-386, for a valid source and
\* a function
CreateComputed(src, f) ==
  LET cid == GetComputeId(f)
      key == CacheKey(src, cid)
      got == CacheGet(cache, key)
      fresh == Len(streams) + 1
      ret == IF got.x # 0 THEN got.x ELSE fresh
      cache2 == IF got.x # 0 THEN got.cache ELSE CacheSet(got.cache, key, fresh)
      gone == CacheKeys(cache) \ CacheKeys(cache2)
  IN /\ opsLeft > 0
     /\ opsLeft' = opsLeft - 1
     /\ fnId' = [fnId EXCEPT ![f] = cid]
     /\ computeIdCounter' = IF fnId[f] # 0 THEN computeIdCounter
                            ELSE computeIdCounter + 1
     /\ cache' = cache2
     /\ streams' = IF got.x # 0 THEN streams
                   ELSE Append(streams, [NoStream EXCEPT !.src = src, !.fn = f])
     /\ recency' = SelectSeq(Touch(recency, key), LAMBDA k : k \notin gone)
     /\ lastRet' = [lastRet EXCEPT ![<<src, f>>] = ret]
     /\ cDone' = [NoCDone EXCEPT !.kind = "create", !.src = src, !.fn = f,
                    !.ret = ret,
                    !.evKey = IF gone = {} THEN NoKey ELSE CHOOSE k \in gone : TRUE,
                    !.lruKey = IF recency = <<>> THEN NoKey ELSE Head(recency)]
     /\ UNCHANGED <<srcVal, srcObs, direct>>
     /\ UNCHANGED nonCmpVars

\* shareReplay({bufferSize: 1, refCount: true}), line 324: the connection
\* to the source is kept while n consumers remain
RefCountKeepsAlways(n) == TRUE
RefCountKeeps(n) == n > 0

\* distinctUntilChanged(STRICT_EQUAL), line 323
DerivedChangedAlways(prev, r) == TRUE
DerivedChanged(prev, r) == ~ObjectIs(prev, r)

\* the source's notification pass after the error of one observer's
\* projection: the error is routed to that derived stream and the pass
\* moves on to the next observer
AfterProjectionErrorAbort(i, n) == n + 1
AfterProjectionError(i, n) == i + 1

\* stream$.subscribe(callback) on the stream the latest createComputed call
\* returned.  The first consumer connects the stream to its source, which
\* replays its current value through the projection; a projection that
\* throws there hands the error to the consumer and leaves the stream
\* unconnected.
CSubscribe ==
  /\ cDone.kind \in {"create", "sub"}
  /\ opsLeft > 0
  /\ opsLeft' = opsLeft - 1
  /\ LET x == cDone.ret
         s == streams[x]
         r == Proj(s.fn, srcVal[s.src])
         rec == [NoCDone EXCEPT !.kind = "sub", !.src = cDone.src,
                   !.fn = cDone.fn, !.ret = x]
     IN IF s.conn
          THEN /\ streams' = [streams EXCEPT ![x].n = @ + 1]
               /\ cDone' = [rec EXCEPT !.v = s.buf]
               /\ UNCHANGED srcObs
          ELSE IF r = Threw
            THEN /\ cDone' = [rec EXCEPT !.errd = {x}, !.evald = {x}]
                 /\ UNCHANGED <<streams, srcObs>>
            ELSE /\ streams' = [streams EXCEPT ![x] =
                                  [s EXCEPT !.n = 1, !.conn = TRUE, !.prev = r,
                                            !.buf = r]]
                 /\ srcObs' = [srcObs EXCEPT ![s.src] = Append(@, x)]
                 /\ cDone' = [rec EXCEPT !.v = r, !.evald = {x}]
  /\ UNCHANGED <<srcVal, direct, cache, recency, fnId, computeIdCounter,
                 lastRet>>
  /\ UNCHANGED nonCmpVars

\* source$.subscribe(callback): a consumer of the source itself
DirectSubscribe(src) ==
  /\ opsLeft > 0
  /\ opsLeft' = opsLeft - 1
  /\ \E d \in Cons :
       /\ direct[d].st = "new"
       /\ \A r \in Cons : r < d => direct[r].st # "new"
       /\ direct' = [direct EXCEPT ![d] =
                       [st |-> "open", src |-> src, last |-> srcVal[src]]]
       /\ srcObs' = [srcObs EXCEPT ![src] = Append(@, 0 - d)]
       /\ cDone' = [NoCDone EXCEPT !.kind = "dsub", !.src = src,
                      !.v = srcVal[src], !.notified = {0 - d}]
  /\ UNCHANGED <<srcVal, streams, cache, recency, fnId, computeIdCounter,
                 lastRet>>
  /\ UNCHANGED nonCmpVars

\* subscription.unsubscribe() of a consumer of derived stream x; the last
\* consumer leaving releases the stream's subscription to the source
CUnsubscribe(x) ==
  /\ x \in 1..Len(streams)
  /\ streams[x].n > 0
  /\ opsLeft > 0
  /\ opsLeft' = opsLeft - 1
  /\ LET left == streams[x].n - 1
     IN IF RefCountKeeps(left)
          THEN /\ streams' = [streams EXCEPT ![x].n = left]
               /\ UNCHANGED srcObs
          ELSE /\ streams' = [streams EXCEPT ![x] =
                                [@ EXCEPT !.n = left, !.conn = FALSE,
                                          !.prev = None, !.buf = None]]
               /\ srcObs' = [srcObs EXCEPT ![streams[x].src] = Without(@, x)]
  /\ cDone' = [NoCDone EXCEPT !.kind = "unsub", !.src = streams[x].src,
                 !.fn = streams[x].fn, !.ret = x]
  /\ UNCHANGED <<srcVal, direct, cache, recency, fnId, computeIdCounter,
                 lastRet>>
  /\ UNCHANGED nonCmpVars

\* subscription.unsubscribe() of a consumer of the source itself
DirectUnsubscribe(d) ==
  /\ direct[d].st = "open"
  /\ opsLeft > 0
  /\ opsLeft' = opsLeft - 1
  /\ direct' = [direct EXCEPT ![d].st = "closed"]
  /\ srcObs' = [srcObs EXCEPT ![direct[d].src] = Without(@, 0 - d)]
  /\ cDone' = [NoCDone EXCEPT !.kind = "dunsub", !.src = direct[d].src]
  /\ UNCHANGED <<srcVal, streams, cache, recency, fnId, computeIdCounter,
                 lastRet>>
  /\ UNCHANGED nonCmpVars

\* the notification pass of a source over the snapshot obs of its
\* observers, from position i on.  The consumers of one derived stream
\* are passive callbacks that all see the same values; the model keeps
\* their number n.
RECURSIVE NotifyPass(_, _, _, _)
NotifyPass(obs, i, v, acc) ==
  IF i > Len(obs) THEN acc
  ELSE
    LET o == obs[i]
    IN IF o < 0
         THEN NotifyPass(obs, i + 1, v,
                [acc EXCEPT !.direct[0 - o].last = v,
                            !.notified = @ \cup {o}])
         ELSE
           LET s == acc.streams[o]
               r == Proj(s.fn, v)
           IN IF r = Threw
                THEN NotifyPass(obs, AfterProjectionError(i, Len(obs)), v,
                       [acc EXCEPT
                          !.streams[o] = [s EXCEPT !.n = 0, !.conn = FALSE,
                                                   !.prev = None, !.buf = None],
                          !.live = Without(@, o),
                          !.errd = @ \cup {o},
                          !.evald = @ \cup {o}])
                ELSE IF DerivedChanged(s.prev, r)
                  THEN NotifyPass(obs, i + 1, v,
                         [acc EXCEPT
                            !.streams[o] = [s EXCEPT !.prev = r, !.buf = r],
                            !.notified = @ \cup {o},
                            !.evald = @ \cup {o}])
                  ELSE NotifyPass(obs, i + 1, v,
                         [acc EXCEPT !.evald = @ \cup {o}])

\* set(v) on a source signal (the setter of createSignal, lines 49-121)
\* with the synchronous pass through the derived pipelines, lines 308-325
SrcSet(src, v) ==
  LET prevVal == srcVal[src]
      start == [streams |-> streams, direct |-> direct, live |-> srcObs[src],
                notified |-> {}, errd |-> {}, evald |-> {}]
      res == IF ObjectIs(prevVal, v) THEN start
             ELSE NotifyPass(srcObs[src], 1, v, start)
  IN /\ opsLeft > 0
     /\ opsLeft' = opsLeft - 1
     /\ srcVal' = [srcVal EXCEPT ![src] = v]
     /\ streams' = res.streams
     /\ direct' = res.direct
     /\ srcObs' = [srcObs EXCEPT ![src] = res.live]
     /\ cDone' = [NoCDone EXCEPT !.kind = "set", !.src = src, !.v = v,
                    !.prevVal = prevVal, !.notified = res.notified,
                    !.errd = res.errd, !.evald = res.evald]
     /\ UNCHANGED <<cache, recency, fnId, computeIdCounter, lastRet>>
     /\ UNCHANGED nonCmpVars

\* ------------------------------------------------------------------------
\* The rendering bridge: useSignal, src/src/useSignal.ts lines 6-54 and
\* src/unnamed/part_008 lines 52-154
\* ------------------------------------------------------------------------
BVals == 0..MaxBVal
Threshold == 3                \* the condition (val) => val < 3
BOpts == {0, Threshold}       \* 0: no condition; k: (value) => value < k

\* takeWhile's predicate, part_008 lines 78-85
ContinueInclusive(opt, v) == opt = 0 \/ v <= opt
Continue(opt, v) == opt = 0 \/ v < opt

\* takeWhile(predicate) without the inclusive flag, part_008 lines 78-85:
\* a value is passed on only when the predicate holds for it
TakeWhileEmitsInclusive(goes) == TRUE
TakeWhileEmits(goes) == goes

\* getSnapshot, useSignal.ts line 47
GetSnapshot == bCur

\* the hook body of a render, useSignal.ts lines 8-15: a changed initial
\* argument overwrites both refs.  The options of the render decide the
\* subscribe function of later subscriptions (part_008 line 144).
BRender(init, opt) ==
  /\ bInit' = init
  /\ bCur' = IF ObjectIs(bInit, init) THEN bCur ELSE init
  /\ bOpt' = opt
  /\ bStep' = "render"
  /\ bTold' = FALSE
  /\ UNCHANGED <<bSrc, bSub, bSubOpt, bPrev, bAnn, bOrig, bSeed, bErr,
                 bLatched>>
  /\ UNCHANGED nonBrVars

\* the next handler, useSignal.ts lines 21-27
AfterNext(cur, v) == v
Announces(cur, v) == ~ObjectIs(cur, v)

\* the next handler of the seeding read, useSignal.ts lines 33-35 and
\* part_008 lines 111-117
SeedReadSkipped(cur, v) == cur
SeedRead(cur, v) == v

\* the error handlers of the subscription and of the seeding read,
\* part_008 lines 95-105 and 118-121, useStore.ts lines 131-141 and 174-177
ErrorFallbackKeep(cur, init) == cur
ErrorFallback(cur, init) == init

\* subscribe(onStoreChange), useSignal.ts lines 18-43 and part_008 lines
\* 71-143.  A source that holds a value replays it into the new
\* subscription, then the seeding read stores that value without calling
\* onStoreChange.  A source that has not emitted leaves both the
\* subscription and the seeding read waiting; a source that has failed
\* hands its error to both.
BSubscribe ==
  /\ bSub # "open"
  /\ bSubOpt' = bOpt
  /\ bStep' = "sub"
  /\ IF bErr
       THEN /\ bSub' = "done"
            /\ bPrev' = None
            /\ bCur' = ErrorFallback(ErrorFallback(bCur, bInit), bInit)
            /\ bAnn' = ErrorFallback(bCur, bInit)
            /\ bTold' = TRUE
            /\ UNCHANGED <<bSeed, bLatched>>
       ELSE IF bSrc = None
       THEN /\ bSub' = "open"
            /\ bPrev' = None
            /\ bSeed' = TRUE
            /\ bTold' = FALSE
            /\ UNCHANGED <<bCur, bAnn, bLatched>>
       ELSE LET v == bSrc
                goes == Continue(bOpt, v)
                told == TakeWhileEmits(goes) /\ Announces(bCur, v)
                cur1 == IF told THEN AfterNext(bCur, v) ELSE bCur
            IN /\ bSub' = IF goes THEN "open" ELSE "done"
               /\ bPrev' = v
               /\ bAnn' = IF told THEN cur1 ELSE bAnn
               /\ bCur' = SeedRead(cur1, v)
               /\ bTold' = told
               /\ bLatched' = (bLatched \/ ~goes)
               /\ UNCHANGED bSeed
  /\ UNCHANGED <<bSrc, bInit, bOpt, bOrig, bErr>>
  /\ UNCHANGED nonBrVars

\* the cleanup returned by subscribe, useSignal.ts line 41 and part_008
\* lines 131-137: it unsubscribes the subscription; the seeding read's
\* subscription was never kept.  Subscription.unsubscribe does nothing on
\* a closed subscription.
BUnsubscribe ==
  /\ bSub # "none"
  /\ bSub' = "closed"
  /\ bPrev' = None
  /\ bStep' = "unsub"
  /\ bTold' = FALSE
  /\ UNCHANGED <<bSrc, bCur, bInit, bOpt, bSubOpt, bAnn, bOrig, bSeed, bErr,
                 bLatched>>
  /\ UNCHANGED nonBrVars

\* set(v) on the bridged source with the synchronous delivery to the
\* bridge's subscription and then to a waiting seeding read
BSet(v) ==
  /\ ~bErr
  /\ bSrc' = v
  /\ bStep' = "set"
  /\ LET emits == ~ObjectIs(bSrc, v)
         arrives == emits /\ bSub = "open" /\ ~ObjectIs(bPrev, v)
         goes == Continue(bSubOpt, v)
         told == arrives /\ TakeWhileEmits(goes) /\ Announces(bCur, v)
         cur1 == IF told THEN AfterNext(bCur, v) ELSE bCur
     IN /\ bPrev' = IF arrives THEN v ELSE bPrev
        /\ bSub' = IF arrives /\ ~goes THEN "done" ELSE bSub
        /\ bCur' = IF emits /\ bSeed THEN SeedRead(cur1, v) ELSE cur1
        /\ bAnn' = IF told THEN cur1 ELSE bAnn
        /\ bTold' = told
        /\ bSeed' = (bSeed /\ ~emits)
        /\ bLatched' = (bLatched \/ (arrives /\ ~goes))
  /\ UNCHANGED <<bInit, bOpt, bSubOpt, bOrig, bErr>>
  /\ UNCHANGED nonBrVars

\* the source fails: error(e) on the subject behind it, as in
\* signal.test.ts line 375.  An open subscription and a waiting seeding
\* read run their error handlers.
BError ==
  /\ ~bErr
  /\ bErr' = TRUE
  /\ bStep' = "error"
  /\ LET mainGets == bSub = "open"
         cur1 == IF mainGets THEN ErrorFallback(bCur, bInit) ELSE bCur
     IN /\ bCur' = IF bSeed THEN ErrorFallback(cur1, bInit) ELSE cur1
        /\ bAnn' = IF mainGets THEN cur1 ELSE bAnn
        /\ bTold' = mainGets
        /\ bSub' = IF mainGets THEN "done" ELSE bSub
  /\ bSeed' = FALSE
  /\ UNCHANGED <<bSrc, bInit, bOpt, bSubOpt, bPrev, bOrig, bLatched>>
  /\ UNCHANGED nonBrVars

\* ------------------------------------------------------------------------
\* The debounced effect: useDebouncedSignalEffect, src/unnamed/part_006
\* lines 72-150
\* ------------------------------------------------------------------------
DVals == 0..MaxDVal
NoTimer == [v |-> None, due |-> 0]

\* setTimeout(callback, delay) for the value just received, part_006
\* lines 96-115, after clearTimeout of the pending one, lines 92-94
KeepPendingTimer(pending, v, t) ==
  IF pending # NoTimer THEN pending ELSE [v |-> v, due |-> t + Delay]
RestartTimer(pending, v, t) == [v |-> v, due |-> t + Delay]

\* debouncedHandler(value), part_006 lines 88-117
DebouncedHandler(v) ==
  /\ lastValueRef' = v
  /\ timeoutRef' = RestartTimer(timeoutRef, v, now)
  /\ lastAt' = now
  /\ dFresh' = TRUE

\* the effect of mounting, part_006 lines 119-126: the source replays its
\* current value into debouncedHandler
DMount ==
  /\ ~dSub
  /\ dSub' = TRUE
  /\ DebouncedHandler(dSrc)
  /\ UNCHANGED <<dSrc, cleanupRef, now, ranCount, ranVal>>
  /\ UNCHANGED nonDbVars

\* set(v) on the source; a changed value reaches debouncedHandler while
\* the hook is subscribed
DSet(v) ==
  /\ dSrc' = v
  /\ IF dSub /\ ~ObjectIs(dSrc, v)
       THEN DebouncedHandler(v)
       ELSE UNCHANGED <<lastValueRef, timeoutRef, lastAt, dFresh>>
  /\ UNCHANGED <<dSub, cleanupRef, now, ranCount, ranVal>>
  /\ UNCHANGED nonDbVars

\* time passes
DTick ==
  /\ now < MaxTime
  /\ now' = now + 1
  /\ UNCHANGED <<dSrc, dSub, lastValueRef, timeoutRef, cleanupRef, ranCount,
                 ranVal, lastAt, dFresh>>
  /\ UNCHANGED nonDbVars

\* the timer callback, part_006 lines 96-114, not before its delay has
\* passed: the previous cleanup, then the effect with the timer's value
DFire ==
  /\ timeoutRef # NoTimer
  /\ now >= timeoutRef.due
  /\ timeoutRef' = NoTimer
  /\ cleanupRef' = TRUE
  /\ ranCount' = ranCount + 1
  /\ ranVal' = timeoutRef.v
  /\ dFresh' = FALSE
  /\ UNCHANGED <<dSrc, dSub, lastValueRef, now, lastAt>>
  /\ UNCHANGED nonDbVars

\* the cleanup of the mount effect, part_006 lines 127-143
DUnmount ==
  /\ dSub
  /\ dSub' = FALSE
  /\ timeoutRef' = NoTimer
  /\ cleanupRef' = FALSE
  /\ dFresh' = FALSE
  /\ UNCHANGED <<dSrc, lastValueRef, now, ranCount, ranVal, lastAt>>
  /\ UNCHANGED nonDbVars

\* ------------------------------------------------------------------------
\* Equality of JavaScript values: Object.is as STRICT_EQUAL, src/src/signal.ts
\* line 10, and shallowEqual, src/src/index.ts lines 69-96 and
\* src/src/useStore.ts lines 11-30
\* ------------------------------------------------------------------------
\* A number is NaN or a sign and a magnitude (so +0 and -0 differ in the
\* sign only), a reference is the identity of an object.
JsVal(t, nan, neg, mag) == [t |-> t, nan |-> nan, neg |-> neg, mag |-> mag]
NaN == JsVal("num", TRUE, FALSE, 0)
PosZero == JsVal("num", FALSE, FALSE, 0)
NegZero == JsVal("num", FALSE, TRUE, 0)
JsStr == JsVal("str", FALSE, FALSE, 0)
JsBool(b) == JsVal("bool", FALSE, FALSE, IF b THEN 1 ELSE 0)
Ref(i) == JsVal("obj", FALSE, FALSE, i)
JsNumbers == {NaN} \cup {JsVal("num", FALSE, s, m) : s \in BOOLEAN, m \in 0..MaxMag}
JsRefs == {Ref(i) : i \in 1..MaxRefs}
JsVals == JsNumbers \cup {JsStr, JsBool(TRUE), JsBool(FALSE)} \cup JsRefs

\* Object.is(x, y): the SameValue comparison
StrictEquals(x, y) ==
  IF x.t # y.t THEN FALSE
  ELSE IF x.t = "num"
    THEN ~x.nan /\ ~y.nan /\ x.mag = y.mag /\ (x.neg = y.neg \/ x.mag = 0)
    ELSE x.mag = y.mag
SameValue(x, y) ==
  IF x.t # y.t THEN FALSE
  ELSE IF x.t = "num"
    THEN IF x.nan \/ y.nan THEN x.nan /\ y.nan
                           ELSE x.mag = y.mag /\ x.neg = y.neg
    ELSE x.mag = y.mag

\* the setter's gate and the emission, signal.ts lines 88-92: an argument
\* that Object.is finds equal to the current value is dropped, any other
\* is stored and handed to the subscribers
JsSet(v) ==
  /\ jsPrev' = jsCur
  /\ jsArg' = v
  /\ jsCur' = IF SameValue(jsCur, v) THEN jsCur ELSE v
  /\ jsNotified' = ~SameValue(jsCur, v)
  /\ jsStep' = "set"
  /\ UNCHANGED nonJsVars

\* the arguments of shallowEqual: an object is a reference and its own
\* enumerable properties, null has reference 0
ShKeys == {"x", "y"}
FieldVals == {NaN, PosZero, NegZero} \cup JsRefs
ShRecords == UNION {[D -> FieldVals] : D \in SUBSET ShKeys}
JsNullObj == Obj(0, EmptyRec)
ShInputs == {Obj(r, rec) : r \in 1..2, rec \in ShRecords} \cup {JsNullObj}

\* shallowEqual of index.ts, lines 69-96
IndexShallowEqualNoCount(a, b) ==
  IF a.ref = b.ref THEN TRUE
  ELSE IF a.ref = 0 \/ b.ref = 0 THEN FALSE
  ELSE \A k \in DOMAIN a.rec :
         k \in DOMAIN b.rec /\ SameValue(a.rec[k], b.rec[k])
IndexShallowEqual(a, b) ==
  IF a.ref = b.ref THEN TRUE
  ELSE IF a.ref = 0 \/ b.ref = 0 THEN FALSE
  ELSE IF Cardinality(DOMAIN a.rec) # Cardinality(DOMAIN b.rec) THEN FALSE
  ELSE \A k \in DOMAIN a.rec :
         k \in DOMAIN b.rec /\ SameValue(a.rec[k], b.rec[k])

\* shallowEqual of useStore.ts, lines 11-30, called with objects only
\* (lines 98-105, 120-124)
UseStoreShallowEqual(a, b) ==
  IF SameValue(Ref(a.ref), Ref(b.ref)) THEN TRUE
  ELSE IF Cardinality(DOMAIN a.rec) # Cardinality(DOMAIN b.rec) THEN FALSE
  ELSE \A k \in DOMAIN a.rec :
         k \in DOMAIN b.rec /\ SameValue(a.rec[k], b.rec[k])

\* the one call of each shallowEqual in a behaviour, on the same two
\* arguments; two arguments with one reference are one object
ShCompare(a, b) ==
  /\ shStep = "init"
  /\ a.ref # 0 \/ b.ref # 0
  /\ a.ref = b.ref => a = b
  /\ shA' = a
  /\ shB' = b
  /\ shIndex' = IndexShallowEqual(a, b)
  /\ shStore' = IF a.ref # 0 /\ b.ref # 0 THEN ShallowEqual(a, b) ELSE FALSE
  /\ shUse' = IF a.ref # 0 /\ b.ref # 0 THEN UseStoreShallowEqual(a, b)
                                         ELSE FALSE
  /\ shStep' = "compare"
  /\ UNCHANGED nonShVars

\* ------------------------------------------------------------------------
\* A store whose fields hold records: createStore, src/src/store.ts lines
\* 40-86, with one subscriber of select("k")
\* ------------------------------------------------------------------------
NKeys == {"k", "o"}
NArgs == [key : NKeys, same : BOOLEAN, rec : Partials]

\* set({ [key]: record }), lines 47-56, and the selector pipeline of
\* select("k"), lines 68-72.  The argument holds either the record the
\* store already has under the key or a new object with the given fields.
NSet(arg) ==
  LET prev == nState
      held == Project(prev, arg.key)
      given == IF arg.same THEN held ELSE Obj(nFresh, arg.rec)
      top == IF arg.same THEN nFresh ELSE nFresh + 1
      cand == Obj(top, Merge(prev.rec, [j \in {arg.key} |-> given]))
      gated == ShallowEqual(prev, cand)
      emits == ~gated /\ nConn /\ SelChanged(nSelPrev, Project(cand, "k"))
  IN /\ top <= MaxNRefs
     /\ nFresh' = top + 1
     /\ nState' = IF gated THEN prev ELSE cand
     /\ nSelPrev' = IF emits THEN Project(cand, "k") ELSE nSelPrev
     /\ nNotified' = emits
     /\ nOld' = Project(prev, "k")
     /\ nStep' = "set"
     /\ UNCHANGED nConn
     /\ UNCHANGED nonNVars

\* subscribe to select("k"): shareReplay connects and the selector hands
\* over the current field, lines 68-72
NSubscribe ==
  /\ ~nConn
  /\ nConn' = TRUE
  /\ nSelPrev' = Project(nState, "k")
  /\ nNotified' = TRUE
  /\ nOld' = Project(nState, "k")
  /\ nStep' = "sub"
  /\ UNCHANGED <<nState, nFresh>>
  /\ UNCHANGED nonNVars

\* the subscriber unsubscribes: refCount disconnects the selector
NUnsubscribe ==
  /\ nConn
  /\ nConn' = FALSE
  /\ nSelPrev' = NoObj
  /\ nNotified' = FALSE
  /\ nOld' = Project(nState, "k")
  /\ nStep' = "unsub"
  /\ UNCHANGED <<nState, nFresh>>
  /\ UNCHANGED nonNVars

\* ------------------------------------------------------------------------
\* The effect hook: useSignalEffect, src/src/useSignalEffect.ts lines 12-44
\* ------------------------------------------------------------------------
ESrcs == {1, 2}               \* the signals source$ may be
EVals == 0..MaxEVal
ERuns == 1..MaxRuns

\* if (cleanupRef.current) cleanupRef.current(), lines 28-29 and 39-41:
\* the count of calls of each run's cleanup
CallCleanupSkipped(calls, ref) == calls
CallCleanup(calls, ref) ==
  IF ref # 0 THEN [calls EXCEPT ![ref] = @ + 1] ELSE calls

\* cleanupRef.current after the effect's teardown called the cleanup,
\* lines 37-42: it is left as it was
AfterTeardown(ref) == ref

\* the subscriber callback, lines 26-35: the previous cleanup, then the
\* effect, whose returned cleanup is kept
HandleNext(ref, calls) ==
  /\ eRuns < MaxRuns
  /\ eCalls' = CallCleanup(calls, ref)
  /\ eRuns' = eRuns + 1
  /\ eCleanupRef' = eRuns + 1

\* the teardown of the subscription effect, lines 37-42
TeardownCalls == CallCleanup(eCalls, eCleanupRef)

\* mount: the effect subscribes and the signal replays its value into the
\* callback, lines 25-35
EMount(src) ==
  /\ eMounted = "no"
  /\ eMounted' = "yes"
  /\ eSource' = src
  /\ HandleNext(eCleanupRef, eCalls)
  /\ eStep' = "mount"
  /\ UNCHANGED <<eSrcVal, eReplaced>>
  /\ UNCHANGED nonEVars

\* set(v) on a signal; a changed value of the subscribed signal reaches
\* the callback
ESet(src, v) ==
  /\ eSrcVal' = [eSrcVal EXCEPT ![src] = v]
  /\ IF eMounted = "yes" /\ eSource = src /\ ~ObjectIs(eSrcVal[src], v)
       THEN HandleNext(eCleanupRef, eCalls)
       ELSE UNCHANGED <<eCalls, eRuns, eCleanupRef>>
  /\ eStep' = "set"
  /\ UNCHANGED <<eMounted, eSource, eReplaced>>
  /\ UNCHANGED nonEVars

\* a render with another source$: React runs the teardown of the effect,
\* line 37-42, and the effect again for the new source, lines 25-35
EReplace(src) ==
  /\ eMounted = "yes"
  /\ src # eSource
  /\ eSource' = src
  /\ HandleNext(AfterTeardown(eCleanupRef), TeardownCalls)
  /\ eStep' = "replace"
  /\ eReplaced' = TRUE
  /\ UNCHANGED <<eMounted, eSrcVal>>
  /\ UNCHANGED nonEVars

\* unmount: the teardown of the effect, lines 37-42
EUnmount ==
  /\ eMounted = "yes"
  /\ eMounted' = "gone"
  /\ eSource' = 0
  /\ eCalls' = TeardownCalls
  /\ eCleanupRef' = AfterTeardown(eCleanupRef)
  /\ eStep' = "unmount"
  /\ UNCHANGED <<eSrcVal, eRuns, eReplaced>>
  /\ UNCHANGED nonEVars

\* ------------------------------------------------------------------------
\* useSignalLifecycle (src/src/useSignalLifecycle.ts) over the selector of
\* one store field, as in the test 'should work with store selectors':
\* source$ is selectUser('name'), get is () => getUser().name.
\* ------------------------------------------------------------------------
LVals == 0..MaxLVal
LKeys == {"name", "age"}

\* get(): the current value of the watched field
LGet == lState.name

\* prevRef.current after the subscriber callback, line 20
PrevAfterStale(prev, current) == prev
PrevAfter(prev, current) == current

\* The effect body, lines 17-27: subscribing delivers the selector's
\* current value at once, to the subscriber callback of lines 18-21; then
\* the callback is called with (undefined, get()) and prevRef is set.
LRunEffect(ref) ==
  LET current == lState.name
      delivered == <<ref, current>>
      initial == LGet
  IN /\ lCalls' = <<delivered, <<Null, initial>>>>
     /\ prevRef' = initial
     /\ lDucPrev' = current
     /\ lSub' = "open"

\* The component mounts; a remount is a new instance with a fresh prevRef.
LMount ==
  /\ lSub # "open"
  /\ LRunEffect(Null)
  /\ lOld' = lState.name
  /\ lStep' = "mount"
  /\ UNCHANGED lState
  /\ UNCHANGED nonLVars

\* One of the dependencies [source$, get, callback] changes identity on a
\* render: the effect is torn down (line 29) and run again with the same
\* prevRef.
LRerun ==
  /\ lSub = "open"
  /\ LRunEffect(prevRef)
  /\ lOld' = lState.name
  /\ lStep' = "rerun"
  /\ UNCHANGED lState
  /\ UNCHANGED nonLVars

\* setUser({ [key]: v }): the store merges and drops a shallow-equal
\* result (src/src/store.ts set); the selector maps to the field and drops
\* an unchanged one (select, distinctUntilChanged(Object.is)); the
\* subscriber callback of lines 18-21 runs for what is left.
LSet(key, v) ==
  LET cand == [lState EXCEPT ![key] = v]
      emits == cand # lState /\ lSub = "open" /\ cand.name # lDucPrev
  IN /\ lState' = cand
     /\ lCalls' = IF emits THEN <<<<prevRef, cand.name>>>> ELSE <<>>
     /\ prevRef' = IF emits THEN PrevAfter(prevRef, cand.name) ELSE prevRef
     /\ lDucPrev' = IF emits THEN cand.name ELSE lDucPrev
     /\ lOld' = lState.name
     /\ lStep' = "set"
     /\ UNCHANGED lSub
     /\ UNCHANGED nonLVars

\* The teardown of line 29; the selector loses its only subscriber and
\* shareReplay(refCount) resets.
LUnmount ==
  /\ lSub = "open"
  /\ lSub' = "closed"
  /\ lDucPrev' = Null
  /\ lCalls' = <<>>
  /\ lOld' = lState.name
  /\ lStep' = "unmount"
  /\ UNCHANGED <<lState, prevRef>>
  /\ UNCHANGED nonLVars

\* ------------------------------------------------------------------------
\* useStore (src/src/useStore.ts) with any initial value, over a store's
\* stream; no condition option
\* ------------------------------------------------------------------------
\* the values of the snapshot: null, a number, or a record
UNull == [t |-> "null", rec |-> EmptyRec]
UPrim == [t |-> "prim", rec |-> EmptyRec]
URec(r) == [t |-> "obj", rec |-> r]
URecords == {URec(r) : r \in Partials}
UInitials == {UNull, UPrim} \cup URecords

\* shallowEqual(a, b), lines 11-30, for b a record: Object.is first; then
\* Object.keys(a), which throws for null and is empty for a number; then
\* the count of keys and the keys of a one by one
UShallowEqual(a, b) ==
  IF a = b THEN "true"
  ELSE IF a.t = "null" THEN "throws"
  ELSE IF Cardinality(DOMAIN a.rec) # Cardinality(DOMAIN b.rec) THEN "false"
  ELSE IF \A k \in DOMAIN a.rec : k \in DOMAIN b.rec /\ a.rec[k] = b.rec[k]
         THEN "true" ELSE "false"

\* hasChanged of the next handlers, lines 120-124 and 165-169, for a value
\* that is a record: !shallowEqual(currentValueRef.current, value)
UHasChanged(cur, value) ==
  LET eq == UShallowEqual(cur, value)
  IN IF eq = "throws" THEN "throws" ELSE IF eq = "true" THEN "no" ELSE "yes"

\* currentValueRef.current after a next handler ran with value; a handler
\* that throws has assigned nothing
UAfterNext(cur, value) ==
  IF UHasChanged(cur, value) = "yes" THEN value ELSE cur

\* the first render, lines 78-85
URender(init) ==
  /\ uStep = "init"
  /\ uInit' = init
  /\ uCur' = init
  /\ uTold' = FALSE
  /\ uThrew' = FALSE
  /\ uStep' = "render"
  /\ UNCHANGED <<uSrc, uSub>>
  /\ UNCHANGED nonUVars

\* subscribe(onStoreChange), lines 88-187: the store's stream emits its
\* current record at once to the next handler of lines 118-130, then the
\* seeding read of lines 145-178 hands it to its own next handler.  An
\* error thrown by a next handler is caught by the subscriber and reported
\* asynchronously; neither the error handlers nor the catch of line 179
\* see it.
USubscribe ==
  /\ uStep # "init"
  /\ uSub # "open"
  /\ LET first == UHasChanged(uCur, uSrc)
         mid == UAfterNext(uCur, uSrc)
         seed == UHasChanged(mid, uSrc)
     IN /\ uCur' = UAfterNext(mid, uSrc)
        /\ uTold' = (first = "yes")
        /\ uThrew' = (first = "throws" \/ seed = "throws")
  /\ uSub' = "open"
  /\ uStep' = "sub"
  /\ UNCHANGED <<uSrc, uInit>>
  /\ UNCHANGED nonUVars

\* set on the source store with a record that is not shallow-equal to the
\* one it holds: the stream emits it, the distinctUntilChanged of lines
\* 95-107 lets it through, the next handler of lines 118-130 runs
USet(r) ==
  /\ uStep # "init"
  /\ URec(r) # uSrc
  /\ uSrc' = URec(r)
  /\ IF uSub = "open"
       THEN LET h == UHasChanged(uCur, URec(r))
            IN /\ uCur' = UAfterNext(uCur, URec(r))
               /\ uTold' = (h = "yes")
               /\ uThrew' = (h = "throws")
       ELSE /\ uTold' = FALSE
            /\ uThrew' = FALSE
            /\ UNCHANGED uCur
  /\ uStep' = "set"
  /\ UNCHANGED <<uInit, uSub>>
  /\ UNCHANGED nonUVars

\* the cleanup returned by subscribe, lines 184-190
UUnsubscribe ==
  /\ uSub = "open"
  /\ uSub' = "closed"
  /\ uTold' = FALSE
  /\ uThrew' = FALSE
  /\ uStep' = "unsub"
  /\ UNCHANGED <<uSrc, uInit, uCur>>
  /\ UNCHANGED nonUVars

\* ------------------------------------------------------------------------
\* The memo wrappers of src/src/useSignalLifecycle.ts and their cache
\* ------------------------------------------------------------------------
MComps == 1..MaxComps

\* the comparison each wrapper hands to React.memo, lines 114, 164, 312
MemoComparisons ==
  [createSignalMemo |-> "fastSignalPropsEqual",
   createShallowMemo |-> "fastShallowEqual",
   preventUnnecessaryRerenders |-> "fastDeepEqual"]
MemoWrappers == DOMAIN MemoComparisons

\* The body the three wrappers share: return what componentMemoCache
\* holds for the component, whichever wrapper put it there; otherwise
\* memoize with the wrapper's own comparison and cache the result.
Memoize(wrapper, c) ==
  LET cached == componentMemoCache[c]
      hit == cached # ""
      memoized == IF hit THEN cached ELSE MemoComparisons[wrapper]
  IN /\ componentMemoCache' = [componentMemoCache EXCEPT ![c] = memoized]
     /\ mLast' = [wrapper |-> wrapper, comp |-> c, cmp |-> memoized,
                  hit |-> hit]
     /\ UNCHANGED nonMVars

\* createSignalMemo(Component), lines 106-120
CreateSignalMemo(c) == Memoize("createSignalMemo", c)

\* createShallowMemo(Component), lines 156-170
CreateShallowMemo(c) == Memoize("createShallowMemo", c)

\* preventUnnecessaryRerenders(Component), lines 303-335
PreventUnnecessaryRerenders(c) == Memoize("preventUnnecessaryRerenders", c)

\* ------------------------------------------------------------------------
\* Specifications
\* ------------------------------------------------------------------------
InitSignal ==
  /\ sigValue = 0
  /\ connected = FALSE
  /\ ducPrev = None
  /\ buffer = <<>>
  /\ observers = <<>>
  /\ subState = [s \in Subs |-> "new"]
  /\ last = [s \in Subs |-> None]
  /\ stack = <<>>
  /\ done = NoDone
  /\ setsLeft = MaxSets
  /\ reported = FALSE
  /\ lateCall = FALSE
  /\ reentered = FALSE

InitStore ==
  /\ stState = Obj(0, [k \in Keys |-> 0])
  /\ whConn = FALSE
  /\ whPrev = NoObj
  /\ whBuf = <<>>
  /\ selCache = [k \in Keys |-> 0]
  /\ selConn = [k \in Keys |-> FALSE]
  /\ selPrev = [k \in Keys |-> None]
  /\ selBuf = [k \in Keys |-> <<>>]
  /\ stSub = [s \in StSubs |-> [st |-> "new", tgt |-> "*"]]
  /\ stDone = [kind |-> "none", arg |-> NoStArg, prev |-> NoObj,
               cand |-> NoObj, post |-> NoObj, open |-> {},
               delta |-> [s \in StSubs |-> 0], repeat |-> FALSE,
               pdelta |-> [s \in StSubs |-> 0]]
  /\ stSetsLeft = MaxStSets

InitComputed ==
  /\ srcVal = [s \in Srcs |-> s - 1]
  /\ srcObs = [s \in Srcs |-> <<>>]
  /\ streams = <<>>
  /\ direct = [d \in Cons |-> NoDirect]
  /\ cache = <<>>
  /\ recency = <<>>
  /\ fnId = [f \in Fns |-> 0]
  /\ computeIdCounter = 0
  /\ lastRet = [q \in Requests |-> 0]
  /\ cDone = NoCDone
  /\ opsLeft = MaxOps

\* the state after the first render useSignal(source$, 0) of a source that
\* has not emitted, before useSyncExternalStore subscribes
InitBridge ==
  /\ bSrc = None
  /\ bInit = 0
  /\ bCur = bInit
  /\ bOrig = bInit
  /\ bOpt = 0
  /\ bSub = "none"
  /\ bSubOpt = 0
  /\ bPrev = None
  /\ bAnn = None
  /\ bSeed = FALSE
  /\ bErr = FALSE
  /\ bLatched = FALSE
  /\ bStep = "init"
  /\ bTold = FALSE

\* the state after the first render of useDebouncedSignalEffect over a
\* signal holding 0, before the mount effect runs
InitDebounce ==
  /\ dSrc = 0
  /\ dSub = FALSE
  /\ lastValueRef = None
  /\ timeoutRef = NoTimer
  /\ cleanupRef = FALSE
  /\ now = 0
  /\ ranCount = 0
  /\ ranVal = None
  /\ lastAt = 0
  /\ dFresh = FALSE

\* a signal created with +0
InitIdentity ==
  /\ jsCur = PosZero
  /\ jsPrev = PosZero
  /\ jsArg = PosZero
  /\ jsNotified = FALSE
  /\ jsStep = "init"

InitShallow ==
  /\ shA = JsNullObj
  /\ shB = JsNullObj
  /\ shIndex = FALSE
  /\ shStore = FALSE
  /\ shUse = FALSE
  /\ shStep = "init"

\* createStore({ k: { a: 0 }, o: { a: 0 } })
InitNested ==
  /\ nState = Obj(1, [j \in NKeys |->
                        Obj(IF j = "k" THEN 2 ELSE 3, [i \in {"a"} |-> 0])])
  /\ nSelPrev = NoObj
  /\ nConn = FALSE
  /\ nNotified = FALSE
  /\ nOld = NoObj
  /\ nFresh = 4
  /\ nStep = "init"

\* the state after the first render of useSignalEffect, before its
\* effects run
InitEffect ==
  /\ eSrcVal = [s \in ESrcs |-> 0]
  /\ eSource = 0
  /\ eMounted = "no"
  /\ eCleanupRef = 0
  /\ eRuns = 0
  /\ eCalls = [r \in ERuns |-> 0]
  /\ eReplaced = FALSE
  /\ eStep = "init"

\* createStore({ name: 0, age: 0 }), the component not yet mounted
InitLifecycle ==
  /\ lState = [name |-> 0, age |-> 0]
  /\ lSub = "none"
  /\ lDucPrev = Null
  /\ prevRef = Null
  /\ lCalls = <<>>
  /\ lOld = 0
  /\ lStep = "init"

\* before the first render of the component; the store holds {}
InitUseStore ==
  /\ uSrc = URec(EmptyRec)
  /\ uInit = UNull
  /\ uCur = UNull
  /\ uSub = "none"
  /\ uTold = FALSE
  /\ uThrew = FALSE
  /\ uStep = "init"

\* the module has been loaded: the cache is empty
InitMemo ==
  /\ componentMemoCache = [c \in MComps |-> ""]
  /\ mLast = [wrapper |-> "", comp |-> 0, cmp |-> "", hit |-> FALSE]

NextSignal ==
  \/ \E arg \in Args : SetTop(arg)
  \/ \E arg \in Args : CbSet(arg)
  \/ Deliver
  \/ CbReturn
  \/ CbThrow
  \/ PassReturn
  \/ Subscribe
  \/ \E t \in Subs : Unsubscribe(t)
  \/ \E t \in Subs : CbUnsub(t)

NextStore ==
  \/ \E arg \in StArgs : StoreSet(arg)
  \/ \E k \in Keys : StSelect(k)
  \/ StSubscribeAll
  \/ \E k \in Keys : StSubscribeKey(k)
  \/ \E s \in StSubs : StUnsubscribe(s)

NextComputed ==
  \/ \E q \in Requests : CreateComputed(q[1], q[2])
  \/ CSubscribe
  \/ \E src \in Srcs : DirectSubscribe(src)
  \/ \E x \in 1..MaxOps : CUnsubscribe(x)
  \/ \E d \in Cons : DirectUnsubscribe(d)
  \/ \E src \in Srcs, v \in SrcVals : SrcSet(src, v)

NextBridge ==
  \/ \E init \in BVals, opt \in BOpts : BRender(init, opt)
  \/ BSubscribe
  \/ BUnsubscribe
  \/ \E v \in BVals : BSet(v)
  \/ BError

NextDebounce ==
  \/ DMount
  \/ \E v \in DVals : DSet(v)
  \/ DTick
  \/ DFire
  \/ DUnmount

NextIdentity == \E v \in JsVals : JsSet(v)

NextShallow == \E a \in ShInputs, b \in ShInputs : ShCompare(a, b)

NextNested ==
  \/ \E arg \in NArgs : NSet(arg)
  \/ NSubscribe
  \/ NUnsubscribe

NextEffect ==
  \/ \E src \in ESrcs : EMount(src)
  \/ \E src \in ESrcs, v \in EVals : ESet(src, v)
  \/ \E src \in ESrcs : EReplace(src)
  \/ EUnmount

NextLifecycle ==
  \/ LMount
  \/ LRerun
  \/ \E key \in LKeys, v \in LVals : LSet(key, v)
  \/ LUnmount

NextUseStore ==
  \/ \E init \in UInitials : URender(init)
  \/ USubscribe
  \/ \E r \in Partials : USet(r)
  \/ UUnsubscribe

NextMemo ==
  \/ \E c \in MComps : CreateSignalMemo(c)
  \/ \E c \in MComps : CreateShallowMemo(c)
  \/ \E c \in MComps : PreventUnnecessaryRerenders(c)

Init ==
  /\ InitSignal
  /\ InitStore
  /\ InitComputed
  /\ InitBridge
  /\ InitDebounce
  /\ InitIdentity
  /\ InitShallow
  /\ InitNested
  /\ InitEffect
  /\ InitLifecycle
  /\ InitUseStore
  /\ InitMemo
Next ==
  \/ NextSignal
  \/ NextStore
  \/ NextComputed
  \/ NextBridge
  \/ NextDebounce
  \/ NextIdentity
  \/ NextShallow
  \/ NextNested
  \/ NextEffect
  \/ NextLifecycle
  \/ NextUseStore
  \/ NextMemo
Spec == Init /\ [][Next]_vars
SpecSignal == Init /\ [][NextSignal]_vars
SpecStore == Init /\ [][NextStore]_vars
SpecComputed == Init /\ [][NextComputed]_vars
SpecBridge == Init /\ [][NextBridge]_vars
SpecDebounce == Init /\ [][NextDebounce]_vars
SpecIdentity == Init /\ [][NextIdentity]_vars
SpecShallow == Init /\ [][NextShallow]_vars
SpecNested == Init /\ [][NextNested]_vars
SpecEffect == Init /\ [][NextEffect]_vars
SpecLifecycle == Init /\ [][NextLifecycle]_vars
SpecUseStore == Init /\ [][NextUseStore]_vars
SpecMemo == Init /\ [][NextMemo]_vars

TypeOK ==
  /\ sigValue \in Values
  /\ connected \in BOOLEAN
  /\ Len(buffer) <= 1
  /\ Range(observers) = OpenSubs
  /\ DOMAIN stState.rec \subseteq Keys
  /\ \A k \in Keys : selConn[k] = (StOpen(k) # {})
  /\ whConn = (StOpen("*") # {})

\* ------------------------------------------------------------------------
\* Claims about the signal
\* ------------------------------------------------------------------------
SetReturned == done.kind = "set"

\* C1 (as stated): when set(v) with v not identical to the current value
\* returns, get() returns v and every subscriber registered before the
\* call has been invoked exactly once with v.
C1_SetStoresAndNotifiesOnce ==
  (SetReturned /\ done.arg.kind = "lit" /\ done.arg.x # done.cur) =>
     /\ done.ret = done.arg.x
     /\ \A s \in done.pre : done.cnt[s] = 1

\* C2: a set whose candidate value is identical to the current value
\* invokes no subscriber and leaves the value unchanged; set(v) called
\* twice in a row notifies nobody the second time.
C2_EqualityGate ==
  SetReturned =>
     /\ (done.v = done.cur) =>
           /\ done.inv = <<>>
           /\ done.ret = done.cur
           /\ ~done.changed
     /\ done.repeat => done.inv = <<>>

C2_Witness ==
  /\ SetReturned
  /\ done.repeat
  /\ done.arg.x # Null
  /\ \E s \in done.pre : subState[s] = "open" /\ last[s] = done.arg.x

\* C3: a set call that changes the value invokes the subscribers in
\* registration order (subscriptions are numbered in registration order);
\* when none of them left during the pass, all of them, each once.
C3_RegistrationOrder ==
  (SetReturned /\ done.changed) =>
     /\ IsIncreasing(done.inv)
     /\ Range(done.inv) \subseteq done.pre
     /\ (done.pre \subseteq OpenSubs) =>
           (Range(done.inv) = done.pre /\ Len(done.inv) = Cardinality(done.pre))

C3_Witness ==
  /\ SetReturned
  /\ done.changed
  /\ Len(done.inv) >= 2

\* C4: no callback runs for a subscription after its unsubscribe returned,
\* and every subscription that is still open has been invoked by every
\* pass of a set that changed the value.
C4_UnsubscribeFinal ==
  /\ ~lateCall
  /\ (SetReturned /\ done.changed) =>
        \A s \in done.pre : subState[s] = "open" => s \in Range(done.inv)

C4_Witness ==
  /\ SetReturned
  /\ done.changed
  /\ done.inv # <<>>
  /\ \E t \in Subs : /\ subState[t] = "closed"
                     /\ last[t] # None
                     /\ last[t] # done.v
                     /\ \E s \in Range(done.inv) : s > t

\* C5: a set called from a callback runs its own pass: when it returns,
\* every subscriber still open has been invoked with the nested value, in
\* registration order; the outer pass it interrupted skips nobody either;
\* and a call in progress can always take its next step.
C5_ReentrantSet ==
  /\ (SetReturned /\ done.changed /\ (done.inCb \/ done.nested)) =>
        /\ IsIncreasing(done.inv)
        /\ \A s \in done.pre :
             subState[s] = "open" => (s \in Range(done.inv) /\ done.cnt[s] >= 1)
  /\ (stack # <<>>) => ENABLED (Deliver \/ PassReturn \/ CbReturn)

C5_Witness ==
  /\ SetReturned
  /\ done.changed
  /\ done.nested
  /\ ~done.inCb
  /\ Len(done.inv) >= 2
  /\ done.ret # done.v

\* C6 (as stated): whenever no call is in progress, the last value
\* delivered to every open subscription is the current value.
C6_NoStaleness ==
  (stack = <<>>) => \A s \in OpenSubs : last[s] = sigValue

\* C6 (amended): the same, provided no nested set changed the value since
\* the last outermost set that changed it.
C6_NoStalenessWithoutReentry ==
  (stack = <<>> /\ ~reentered) => \A s \in OpenSubs : last[s] = sigValue

C6_Witness ==
  /\ stack = <<>>
  /\ ~reentered
  /\ SetReturned
  /\ done.changed
  /\ Len(done.inv) >= 2
  /\ done.ret = sigValue

\* C7: when a callback throws during a pass, the remaining subscribers
\* are still invoked, each once, the value is the new value, and the
\* error went to the asynchronous hook instead of the caller of set.
C7_FailureIsolation ==
  (SetReturned /\ done.threw) =>
     /\ reported
     /\ \A s \in done.pre : subState[s] = "open" => s \in Range(done.inv)
     /\ ~done.nested =>
           /\ done.ret = done.v
           /\ \A s \in Range(done.inv) : done.cnt[s] = 1

C7_Witness ==
  /\ SetReturned
  /\ done.threw
  /\ ~done.nested
  /\ Len(done.inv) >= 2


\* ------------------------------------------------------------------------
\* Claims about the store
\* ------------------------------------------------------------------------
StoreSetReturned == stDone.kind = "set"

\* C8: after set(p) with a partial record p, every key of p holds p's
\* value and every other key holds the value it had before the call (the
\* spread of store.ts and fastMerge of the later revision agree on it).
C8_MergeFrame ==
  (StoreSetReturned /\ stDone.arg.kind = "part") =>
     LET p == stDone.arg.p
         before == stDone.prev.rec
         after == stState.rec
     IN /\ DOMAIN after = DOMAIN before \cup DOMAIN p
        /\ \A k \in DOMAIN p : after[k] = p[k]
        /\ \A k \in DOMAIN before \ DOMAIN p : after[k] = before[k]
        /\ FastMerge(before, p) = after

C8_Witness ==
  /\ StoreSetReturned
  /\ stDone.arg.kind = "part"
  /\ \E k \in DOMAIN stDone.arg.p :
       /\ k \in DOMAIN stDone.prev.rec
       /\ stDone.prev.rec[k] # stDone.arg.p[k]
  /\ \E k \in DOMAIN stDone.prev.rec \ DOMAIN stDone.arg.p :
       stDone.prev.rec[k] # 0

\* C9: a set whose result has the same keys and values as the current
\* state notifies nobody and leaves the state object in place; a set that
\* changes the record notifies every whole-store subscriber once, and
\* every subscriber of a key whose value it changes; so of set(p) called
\* twice in a row at most the first call notifies.
C9_RecordEqualitySuppression ==
  StoreSetReturned =>
     /\ (stDone.cand.rec = stDone.prev.rec) =>
           /\ \A s \in StSubs : stDone.delta[s] = 0
           /\ stState = stDone.prev
     /\ (stDone.cand.rec # stDone.prev.rec) =>
           \A s \in stDone.open :
              \/ stSub[s].tgt = "*" /\ stDone.delta[s] = 1
              \/ /\ stSub[s].tgt \in Keys
                 /\ \/ stDone.delta[s] = 1
                    \/ /\ stDone.delta[s] = 0
                       /\ Get(stDone.cand.rec, stSub[s].tgt)
                            = Get(stDone.prev.rec, stSub[s].tgt)
     /\ stDone.repeat =>
           \A s \in StSubs : stDone.delta[s] = 0 /\ stDone.pdelta[s] <= 1

C9_Witness ==
  /\ StoreSetReturned
  /\ stDone.repeat
  /\ DOMAIN stDone.arg.p # {}
  /\ \E s \in stDone.open : stDone.pdelta[s] = 1 /\ stDone.delta[s] = 0

\* C10: a set notifies the subscribers of select(k) exactly when it
\* changes the value of k; a change of another key alone never does.
C10_SelectorIsolation ==
  StoreSetReturned =>
     \A s \in stDone.open :
        stSub[s].tgt \in Keys =>
          stDone.delta[s] =
            IF Get(stDone.prev.rec, stSub[s].tgt) # Get(stDone.post.rec, stSub[s].tgt)
              THEN 1 ELSE 0

C10_Witness ==
  /\ StoreSetReturned
  /\ \E s \in stDone.open :
       /\ stSub[s].tgt \in Keys
       /\ stDone.delta[s] = 0
       /\ \E k \in Keys \ {stSub[s].tgt} :
            Get(stDone.prev.rec, k) # Get(stDone.post.rec, k)

CreateReturned == cDone.kind = "create"
SrcSetReturned == cDone.kind = "set"

\* the derived streams observing source src with projection f
Upstream(src, f) ==
  {i \in 1..Len(srcObs[src]) :
     srcObs[src][i] > 0 /\ streams[srcObs[src][i]].fn = f}

\* C12 as stated: createComputed(source, proj) returns the stream it
\* returned for the same pair before, whatever createComputed calls were
\* made in between.
C12_ReferentialStability ==
  [][\A q \in Requests : lastRet[q] # 0 => lastRet'[q] = lastRet[q]]_vars

\* C12 amended: createComputed(source, proj) returns the stream it returned
\* for the same pair before as long as that stream is still in the cache,
\* that is, as long as fewer than maxSize other projections were given a
\* new entry since the stream was last requested.
C12_StableWhileCached ==
  [][\A q \in Requests :
       (lastRet[q] # 0 /\ lastRet[q] \in CachedStreams)
         => lastRet'[q] = lastRet[q]]_vars

\* a request answered from the cache with an older stream than the newest
\* one, so another derivation was created in between
C12_Witness ==
  /\ CreateReturned
  /\ cDone.ret < Len(streams)
  /\ streams[cDone.ret].src = cDone.src
  /\ streams[cDone.ret].fn = cDone.fn

\* C13: the stream returned for (source, proj) is derived from that source
\* with that projection, so that requests differing in the source or in
\* the projection get distinct streams.
C13_KeyIdentity ==
  \A q \in Requests :
    lastRet[q] # 0 =>
      /\ streams[lastRet[q]].src = q[1]
      /\ streams[lastRet[q]].fn = q[2]

\* C14: once a consumer has subscribed to the stream obtained for
\* (source, proj), the source holds exactly one subscription for that
\* derivation, however many consumers there are.
C14_SharedSubscription ==
  (cDone.kind = "sub" /\ cDone.errd = {})
    => Cardinality(Upstream(cDone.src, cDone.fn)) = 1

\* C15: a derived stream is subscribed to its source exactly while it has
\* consumers, and its projection is evaluated only for consumers.
C15_LazyRefCounted ==
  /\ \A x \in 1..Len(streams) :
       /\ streams[x].conn = (streams[x].n > 0)
       /\ (x \in Range(srcObs[streams[x].src])) = (streams[x].n > 0)
  /\ \A x \in cDone.evald : streams[x].n > 0 \/ x \in cDone.errd

\* the last consumer of a stream has unsubscribed and the stream has
\* released its source
C15_Witness ==
  /\ cDone.kind = "unsub"
  /\ streams[cDone.ret].n = 0
  /\ ~streams[cDone.ret].conn
  /\ cDone.ret \notin Range(srcObs[cDone.src])

\* C16: the cache never holds more than its bound, and an insertion into
\* a full cache removes the key accessed least recently.
C16_BoundedLRU ==
  /\ Len(cache) <= CacheBound
  /\ (CreateReturned /\ cDone.evKey # NoKey)
       => /\ cDone.evKey = cDone.lruKey
          /\ Len(cache) = CacheBound

\* an eviction that spared an entry created earlier than the evicted one
\* (compute ids are handed out in order), because it had been looked up
\* again
C16_Witness ==
  /\ CreateReturned
  /\ cDone.evKey # NoKey
  /\ \E i \in 1..Len(cache) : cache[i].key[2] < cDone.evKey[2]

\* C17: a stream with at least one consumer is never evicted.
C17_LiveEntriesRetained ==
  \A x \in 1..Len(streams) : streams[x].n > 0 => x \in CachedStreams

\* C18: a set of the source notifies the consumers of a derived stream
\* exactly when the projected value differs from the previous one.
C18_DerivedEqualityGate ==
  SrcSetReturned =>
    \A x \in 1..Len(streams) :
      (streams[x].src = cDone.src /\ streams[x].n > 0) =>
        ((x \in cDone.notified)
           <=> (Proj(streams[x].fn, cDone.v) # Proj(streams[x].fn, cDone.prevVal)))

\* the source changed, the projected value did not, the consumers were
\* not notified
C18_Witness ==
  /\ SrcSetReturned
  /\ cDone.v # cDone.prevVal
  /\ \E x \in 1..Len(streams) :
       /\ streams[x].src = cDone.src
       /\ streams[x].n > 0
       /\ x \notin cDone.notified

\* C19: when a projection throws during a set, the consumers of that
\* derived stream are terminated with the error, the source holds the new
\* value, and every other observer of the source has the new value, in
\* this pass and in every later one.
C19_ProjectionFailureContained ==
  /\ \A d \in Cons :
       direct[d].st = "open" => direct[d].last = srcVal[direct[d].src]
  /\ \A x \in 1..Len(streams) :
       streams[x].n > 0 =>
         streams[x].buf = Proj(streams[x].fn, srcVal[streams[x].src])
  /\ SrcSetReturned =>
       /\ srcVal[cDone.src] = cDone.v
       /\ \A x \in cDone.errd :
            /\ Proj(streams[x].fn, cDone.v) = Threw
            /\ streams[x].n = 0
            /\ x \notin Range(srcObs[cDone.src])
       /\ cDone.v # cDone.prevVal =>
            \A d \in Cons :
              (direct[d].st = "open" /\ direct[d].src = cDone.src)
                => (0 - d) \in cDone.notified

\* a projection threw and another observer of the source was notified in
\* the same pass
C19_Witness ==
  /\ SrcSetReturned
  /\ cDone.errd # {}
  /\ cDone.notified # {}

\* ------------------------------------------------------------------------
\* Claims about the rendering bridge
\* ------------------------------------------------------------------------

\* C20: getSnapshot returns the value of the latest notification that
\* called onStoreChange, or the original initial argument when there has
\* been none.
C20_SnapshotConsistent ==
  GetSnapshot = (IF bAnn = None THEN bOrig ELSE bAnn)

\* C21: when subscribe returns, getSnapshot is the value the source holds
\* at that moment, also when that value differs from the initial argument.
C21_SeededOnSubscribe ==
  (bStep = "sub" /\ bSrc # None /\ ~bErr) => GetSnapshot = bSrc

\* a subscribe that returned with a source value other than the initial
\* argument, a value the condition of that subscription rejects
C21_Witness ==
  /\ bStep = "sub"
  /\ ~bErr
  /\ bSrc # None
  /\ bSrc # bInit
  /\ bSubOpt # 0
  /\ bSrc >= bSubOpt
  /\ GetSnapshot = bSrc

\* C22: once a condition has returned false for a value, no later source
\* set, subscribe, unsubscribe or render (here: one that passes the same
\* initial argument, with the same or with new options) calls
\* onStoreChange or changes what getSnapshot returns.
C22_OneWayLatch ==
  [][(bLatched /\ bInit' = bInit) => (bCur' = bCur /\ ~bTold')]_vars

C24_ScenarioInclusive ==
  [][(/\ bStep' = "set"
      /\ bSubOpt = Threshold
      /\ ~bSeed
      /\ bSrc # None
      /\ bSrc' = bSrc + 1)
     => /\ (bSub = "open" /\ bSrc' < Threshold) => bCur' = bSrc'
        /\ (bSub = "open" /\ bSrc' = Threshold)
             => (bCur' = Threshold /\ bSub' = "done")
        /\ (bSub = "done" /\ bSrc' > Threshold)
             => (bCur' = bCur /\ ~bTold')]_vars

\* C24 as amended: the increment to 3 ends the subscription without
\* reaching the consumer, whose last value stays 2.
C24_ScenarioExclusive ==
  [][(/\ bStep' = "set"
      /\ bSubOpt = Threshold
      /\ ~bSeed
      /\ bSrc # None
      /\ bSrc' = bSrc + 1)
     => /\ (bSub = "open" /\ bSrc' < Threshold) => bCur' = bSrc'
        /\ (bSub = "open" /\ bSrc' = Threshold)
             => (bCur' = bCur /\ ~bTold' /\ bSub' = "done")
        /\ (bSub = "done" /\ bSrc' > Threshold)
             => (bCur' = bCur /\ ~bTold')]_vars

\* the counter went on to 4 and the consumer still reads 2, the last
\* value it was told of
C24_Witness ==
  /\ bStep = "set"
  /\ bSubOpt = Threshold
  /\ bSub = "done"
  /\ bSrc = Threshold + 1
  /\ bAnn = Threshold - 1
  /\ GetSnapshot = Threshold - 1

\* C25: after the cleanup returned by subscribe has run, a change of the
\* source neither calls onStoreChange nor changes what getSnapshot returns.
C25_CleanupComplete ==
  [][(bSub = "closed" /\ bSrc' # bSrc) => (bCur' = bCur /\ ~bTold')]_vars

\* C26: when the cleanup returns, on its first call or a later one, the
\* bridge holds no subscription on the source: neither the main one nor
\* the seeding read.
C26_UnsubscribeComplete ==
  bStep = "unsub" => (bSub = "closed" /\ ~bSeed)

\* C28 as stated: when the source's error reaches the bridge, getSnapshot
\* keeps the last snapshot it had.
C28_FallbackToLastGood ==
  [][((bStep' = "error" /\ (bSub = "open" \/ bSeed))
       \/ (bStep' = "sub" /\ bErr'))
     => bCur' = bCur]_vars

\* C28 as amended: when the source's error reaches the bridge, getSnapshot
\* returns the initial argument of the latest render, whatever was
\* delivered before.
C28_FallbackToInitial ==
  [][((bStep' = "error" /\ (bSub = "open" \/ bSeed))
       \/ (bStep' = "sub" /\ bErr'))
     => (bCur' = bInit /\ bInit' = bInit)]_vars

\* the source failed after it had delivered a value other than the
\* initial argument, and getSnapshot is back at the initial argument
C28_Witness ==
  /\ bStep = "error"
  /\ bTold
  /\ bPrev # None
  /\ bPrev # bInit
  /\ GetSnapshot = bInit

\* ------------------------------------------------------------------------
\* Claims about the debounced effect
\* ------------------------------------------------------------------------

\* C27: every value that reaches the hook replaces the pending timer by a
\* new one due a full delay later; the effect runs at most once for the
\* values received since its last run, with the last of them, and not
\* before the delay has passed since that last value; and while the hook
\* is subscribed a received value that the effect has not run for has its
\* timer pending.
C27_PureDebounce ==
  [][/\ (lastAt' # lastAt \/ lastValueRef' # lastValueRef \/ (dFresh' /\ ~dFresh))
          => timeoutRef' = [v |-> lastValueRef', due |-> now + Delay]
     /\ (ranCount' # ranCount)
          => /\ ranCount' = ranCount + 1
             /\ dFresh
             /\ ranVal' = lastValueRef
             /\ now >= lastAt + Delay
     /\ (dSub' /\ dFresh') => timeoutRef'.v = lastValueRef'
     /\ ~dSub' => timeoutRef' = NoTimer]_vars

\* the effect ran once, for the last of two values received less than
\* the delay apart
C27_Witness ==
  /\ ranCount = 1
  /\ ~dFresh
  /\ dSub
  /\ ranVal = lastValueRef
  /\ ranVal # 0
  /\ lastAt > 0
  /\ lastAt < Delay

\* ------------------------------------------------------------------------
\* Claims about equality
\* ------------------------------------------------------------------------

\* C29 as stated: set(v) hands v to the subscribers exactly when v and the
\* current value are not identity-equal, where NaN is identity-equal to
\* NaN, +0 to -0, a primitive to the same primitive and a reference to
\* itself only.
C29_IdentityEqualGate ==
  jsStep = "set" =>
    (jsNotified <=> ~(jsPrev = jsArg \/ {jsPrev, jsArg} = {PosZero, NegZero}))

\* C29 as amended: set(v) hands v to the subscribers, and stores it,
\* exactly when v and the current value are not the same value, where NaN
\* is the same value as NaN, +0 is not the same value as -0, and two
\* references are the same value only when they are one reference.
C29_SameValueGate ==
  jsStep = "set" =>
    /\ jsNotified <=> jsPrev # jsArg
    /\ jsCur = (IF jsNotified THEN jsArg ELSE jsPrev)
    /\ (jsPrev = NaN /\ jsArg = NaN) => ~jsNotified
    /\ {jsPrev, jsArg} = {PosZero, NegZero} => jsNotified
    /\ (jsPrev.t = "obj" /\ jsArg.t = "obj" /\ jsPrev.mag # jsArg.mag)
         => jsNotified

\* set(-0) on a signal holding +0 stored -0 and notified
C29_Witness ==
  /\ jsStep = "set"
  /\ jsPrev = PosZero
  /\ jsArg = NegZero
  /\ jsCur = NegZero
  /\ jsNotified

C31_FieldGateShallow ==
  (/\ nStep = "set"
   /\ nConn
   /\ nState.rec["k"].ref # nOld.ref
   /\ nState.rec["k"].rec = nOld.rec)
  => ~nNotified

\* C31 as amended: a set notifies the subscriber of select("k") exactly
\* when the record under "k" afterwards is another object than before,
\* whatever its fields hold.
C31_FieldGateIdentity ==
  (nStep = "set" /\ nConn) => (nNotified <=> nState.rec["k"].ref # nOld.ref)

\* a set that put a distinct record with the same fields under "k" and
\* notified the subscriber
C31_Witness ==
  /\ nStep = "set"
  /\ nConn
  /\ nState.rec["k"].ref # nOld.ref
  /\ nState.rec["k"].rec = nOld.rec
  /\ nNotified

\* ------------------------------------------------------------------------
\* Claims about the effect hook
\* ------------------------------------------------------------------------

\* C32: when the effect runs, the cleanup returned by every earlier run has
\* been called; while the hook is mounted the cleanup of the latest run
\* has not been called; once the hook is unmounted the cleanup of every
\* run, the last one included, has been called: k cleanups after k runs,
\* and k calls in all when the hook kept one source.
C32_CleanupProtocol ==
  /\ \A r \in ERuns : (r < eRuns) => eCalls[r] >= 1
  /\ \A r \in ERuns : (r > eRuns) => eCalls[r] = 0
  /\ (eMounted = "yes" /\ eRuns > 0)
       => (eCleanupRef = eRuns /\ eCalls[eRuns] = 0)
  /\ eMounted = "gone"
       => Cardinality({r \in ERuns : eCalls[r] >= 1}) = eRuns
  /\ (eMounted = "gone" /\ ~eReplaced)
       => \A r \in ERuns : (r <= eRuns) => eCalls[r] = 1

\* three runs of the effect on one source, then the unmount: three
\* cleanups were called, each once
C32_Witness ==
  /\ eStep = "unmount"
  /\ ~eReplaced
  /\ eRuns = 3
  /\ \A r \in 1..3 : eCalls[r] = 1

\* C38: the cleanup returned by a run of the effect is called at most
\* once, over source changes, replacement of source$ and unmount.
C38_CleanupAtMostOnce ==
  \A r \in ERuns : eCalls[r] <= 1

\* ------------------------------------------------------------------------
\* Claims about the lifecycle hook
\* ------------------------------------------------------------------------

\* C33: at mount the callback is called with (undefined, current value);
\* every later change of the watched field calls it exactly once, with
\* the value the field held immediately before the change and the new
\* value; a set that leaves the watched field alone, a change of another
\* key included, calls it not at all.
C33_LifecycleHistory ==
  /\ lStep = "mount"
       => /\ Len(lCalls) >= 1
          /\ \A i \in 1..Len(lCalls) : lCalls[i] = <<Null, lState.name>>
  /\ (lStep = "set" /\ lSub = "open" /\ lState.name # lOld)
       => lCalls = <<<<lOld, lState.name>>>>
  /\ (lStep = "set" /\ lState.name = lOld) => lCalls = <<>>

\* the second change in a row, 1 to 2, reported as (1, 2)
C33_Witness ==
  /\ lStep = "set"
  /\ lSub = "open"
  /\ lState.age = 1
  /\ lCalls = <<<<1, 2>>>>

\* ------------------------------------------------------------------------
\* Claims about the setter's argument
\* ------------------------------------------------------------------------

\* C34: a set call whose updater function throws returns normally, leaves
\* get() at the previous value and invokes no subscriber.
C34_UpdaterFailure ==
  (SetReturned /\ done.arg.kind = "fn" /\ done.arg.x = FnBoom) =>
     /\ done.ret = done.cur
     /\ ~done.changed
     /\ done.inv = <<>>
     /\ ~done.threw

\* a throwing updater given to a signal that holds 1 and has a subscriber
\* that was told 1
C34_Witness ==
  /\ SetReturned
  /\ stack = <<>>
  /\ done.arg.kind = "fn"
  /\ done.arg.x = FnBoom
  /\ done.cur = 1
  /\ \E s \in done.pre : subState[s] = "open" /\ last[s] = 1

\* C35: set treats its argument as an updater exactly when it is a
\* function: a literal argument is the candidate value itself, whatever it
\* is, and an updater's result is the candidate otherwise; set(null) on a
\* signal that holds a number makes get() return null and tells every
\* subscriber once.
C35_LiteralOrUpdater ==
  SetReturned =>
     /\ (done.arg.kind = "lit") => done.v = done.arg.x
     /\ (done.arg.kind = "lit") => (done.changed <=> done.arg.x # done.cur)
     /\ (done.arg.kind = "lit" /\ done.arg.x = Null /\ done.cur # Null)
          => /\ done.ret = Null
             /\ \A s \in done.pre : done.cnt[s] >= 1

\* ------------------------------------------------------------------------
\* Claims about late subscribers
\* ------------------------------------------------------------------------

C37_AnyInitialValue ==
  /\ (uSub = "open" /\ uStep \in {"sub", "set"})
       => (uCur.t = "obj" /\ uCur.rec = uSrc.rec)
  /\ (uSub = "open" /\ uStep = "set") => uTold
  /\ ~uThrew

\* ------------------------------------------------------------------------
\* Claims about the memo wrappers
\* ------------------------------------------------------------------------

\* C39: in any order of calls, createSignalMemo returns a component
\* memoized with the signal-aware comparison, createShallowMemo one with
\* the shallow comparison, preventUnnecessaryRerenders one with the deep
\* comparison.
C39_WrappersIndependent ==
  /\ (mLast.wrapper = "createSignalMemo")
       => mLast.cmp = "fastSignalPropsEqual"
  /\ (mLast.wrapper = "createShallowMemo")
       => mLast.cmp = "fastShallowEqual"
  /\ (mLast.wrapper = "preventUnnecessaryRerenders")
       => mLast.cmp = "fastDeepEqual"

====
